---- MODULE Spec2Model ----
(***************************************************************************)
(* A model of the parts-database conversion of kicad-jlcpcb-tools          *)
(* (db_build/jlcparts_db_convert.py): the price-list normalisation of      *)
(* class Price, the per-row translation of Generate.load_tables, and the   *)
(* run of Generate.build over a components table, batch by batch, up to    *)
(* the category index and the metadata row.                                *)
(*                                                                         *)
(* Text is modelled as sequences of one-character strings, so that         *)
(* formatting, parsing, searching and replacing are computed as the        *)
(* program computes them.  A float is modelled by the integer k that       *)
(* stands for the double nearest to k / 10^4; every price of the model     *)
(* has at most four fractional digits, so the map is exact and keeps the   *)
(* order of the doubles.                                                   *)
(***************************************************************************)
EXTENDS Integers, Sequences, FiniteSets, TLC

\* ------------------------------------------------------------------------
\* Bounds of the model
\* ------------------------------------------------------------------------

\* Longest price list drawn as an input.
MaxLen == 3

\* Width of one input quantity tier (qTo = qFrom + TierWidth - 1).
TierWidth == 10

\* Most rows of the components table.
MaxRows == 3

\* Largest size given to fetchmany (load_tables passes 100000).
MaxBatch == 3

\* ------------------------------------------------------------------------
\* Text and numbers
\* ------------------------------------------------------------------------

\* Python's None, for max_quantity and for qTo (quantities are >= 1).
None == 0

DigitChars == <<"0", "1", "2", "3", "4", "5", "6", "7", "8", "9">>

DigitVal(ch) == (CHOOSE i \in 1..10 : DigitChars[i] = ch) - 1

IsDigit(ch) == \E i \in 1..10 : DigitChars[i] = ch

RECURSIVE IntToStr(_)
\* str(n) / f"{n}" of a non-negative int.
IntToStr(n) ==
    IF n < 10 THEN <<DigitChars[n + 1]>>
    ELSE IntToStr(n \div 10) \o <<DigitChars[(n % 10) + 1]>>

RECURSIVE StrToInt(_)
\* int(s) of a string of decimal digits.
StrToInt(s) ==
    IF Len(s) = 0 THEN 0
    ELSE StrToInt(SubSeq(s, 1, Len(s) - 1)) * 10 + DigitVal(s[Len(s)])

RECURSIVE Pow10(_)
Pow10(n) == IF n = 0 THEN 1 ELSE 10 * Pow10(n - 1)

\* Index of the first occurrence of character ch in s, 0 when there is none.
IndexOf(s, ch) ==
    IF \E i \in 1..Len(s) : s[i] = ch
    THEN CHOOSE i \in 1..Len(s) : s[i] = ch /\ \A j \in 1..(i - 1) : s[j] # ch
    ELSE 0

\* float(s) of a decimal string with at most four fractional digits, in
\* units of 10^-4.
ParseFloat(s) ==
    LET dot == IndexOf(s, ".")
        ip  == IF dot = 0 THEN s ELSE SubSeq(s, 1, dot - 1)
        fp  == IF dot = 0 THEN <<>> ELSE SubSeq(s, dot + 1, Len(s))
    IN  StrToInt(ip) * 10000 + StrToInt(fp) * Pow10(4 - Len(fp))

\* The values k (below 0.1) with k / 10^4 a decimal tie at three places whose
\* nearest double lies above the tie: binary floating point decides these,
\* not a decimal rounding rule (0.0095 is stored as 0.00949999...).
TiesAbove ==
    {5, 15, 25, 35, 85, 105, 125, 145, 165, 175, 205, 235, 245, 275, 285,
     315, 325, 335, 345, 395, 405, 415, 425, 475, 485, 495, 505, 555, 565,
     575, 585, 635, 645, 655, 665, 675, 685, 695, 785, 795, 805, 815, 825,
     835, 845, 855, 945, 955, 965, 975, 985, 995}

\* The correctly rounded number of thousandths of the double k / 10^4.
Mills(k) ==
    LET q == k \div 10
        r == k % 10
    IN  IF r > 5 \/ (r = 5 /\ k \in TiesAbove) THEN q + 1 ELSE q

\* f"{x:.3f}": integer part, a point, three zero-padded fractional digits.
Format3f(k) ==
    LET m  == Mills(k)
        fr == m % 1000
    IN  IntToStr(m \div 1000) \o <<".">>
        \o <<DigitChars[(fr \div 100) + 1],
             DigitChars[((fr \div 10) % 10) + 1],
             DigitChars[(fr % 10) + 1]>>

\* round(x, 3): the double nearest to the rounded thousandths.
Round3(k) == Mills(k) * 10

\* ------------------------------------------------------------------------
\* PriceEntry and Price
\* ------------------------------------------------------------------------

\* PriceEntry.__init__
PriceEntry(min_quantity, max_quantity, price_dollars) ==
    [min_quantity      |-> min_quantity,
     max_quantity      |-> max_quantity,
     price_dollars_str |-> price_dollars,
     price_dollars     |-> ParseFloat(price_dollars)]

\* PriceEntry.Parse
ParseEntry(price_entry) ==
    PriceEntry(price_entry.qFrom, price_entry.qTo, price_entry.price)

\* Price.__init__
PriceInit(part_price) == [i \in 1..Len(part_price) |-> ParseEntry(part_price[i])]

ReducePrecisionTruncating(entries) ==
    [i \in 1..Len(entries) |->
        [entries[i] EXCEPT
            !.price_dollars_str = Format3f(entries[i].price_dollars),
            !.price_dollars = (entries[i].price_dollars \div 10) * 10]]

\* Price.reduce_precision: the list itself, every entry rewritten in place.
ReducePrecision(entries) ==
    [i \in 1..Len(entries) |->
        [entries[i] EXCEPT
            !.price_dollars_str = Format3f(entries[i].price_dollars),
            !.price_dollars = Round3(entries[i].price_dollars)]]

RECURSIVE KeptFrom(_, _, _)
\* The indices i..Len(entries) whose price is >= the cutoff, in order.
KeptFrom(entries, cutoff_price_dollars, i) ==
    IF i > Len(entries) THEN <<>>
    ELSE (IF entries[i].price_dollars >= cutoff_price_dollars
          THEN <<i>> ELSE <<>>)
         \o KeptFrom(entries, cutoff_price_dollars, i + 1)

\* The indices of the entries filter_below_cutoff retains.
KeptIndices(entries, cutoff_price_dollars) ==
    IF Len(entries) >= 1
    THEN <<1>> \o KeptFrom(entries, cutoff_price_dollars, 2)
    ELSE <<>>

FilterBelowCutoffStrict(entries, cutoff_price_dollars) ==
    LET kept == IF Len(entries) >= 1
                THEN <<1>> \o KeptFrom(
                         [i \in 1..Len(entries) |->
                            [entries[i] EXCEPT !.price_dollars = @ - 1]],
                         cutoff_price_dollars, 2)
                ELSE <<>>
    IN  [j \in 1..Len(kept) |->
            IF j = Len(kept)
            THEN [entries[kept[j]] EXCEPT !.max_quantity = None]
            ELSE entries[kept[j]]]

FilterBelowCutoffKeepMax(entries, cutoff_price_dollars) ==
    LET kept == KeptIndices(entries, cutoff_price_dollars)
    IN  [j \in 1..Len(kept) |-> entries[kept[j]]]

\* Price.filter_below_cutoff: the returned list.
FilterBelowCutoff(entries, cutoff_price_dollars) ==
    LET kept == KeptIndices(entries, cutoff_price_dollars)
    IN  [j \in 1..Len(kept) |->
            IF j = Len(kept)
            THEN [entries[kept[j]] EXCEPT !.max_quantity = None]
            ELSE entries[kept[j]]]

\* Price.filter_below_cutoff: the argument list after the call.  The returned
\* list holds the argument's own objects, so forcing the last returned
\* max_quantity to None changes that entry of the argument too.
FilterBelowCutoffArg(entries, cutoff_price_dollars) ==
    LET kept == KeptIndices(entries, cutoff_price_dollars)
    IN  [i \in 1..Len(entries) |->
            IF Len(kept) > 0 /\ i = kept[Len(kept)]
            THEN [entries[i] EXCEPT !.max_quantity = None]
            ELSE entries[i]]

RECURSIVE DupScan(_, _, _, _, _)
\* The while loop of filter_duplicate_prices.  f is the pending copy, as a
\* list of no entry (f is None) or one.
DupScan(entries, first, second, f, price_entries_unique) ==
    LET g == IF f = <<>> THEN <<entries[first]>> ELSE f
    IN  IF second >= Len(entries) + 1
        THEN price_entries_unique \o g
        ELSE IF g[1].price_dollars_str = entries[second].price_dollars_str
             THEN DupScan(entries, first, second + 1,
                          <<[g[1] EXCEPT !.max_quantity =
                                entries[second].max_quantity]>>,
                          price_entries_unique)
             ELSE DupScan(entries, second, second + 1, <<>>,
                          price_entries_unique \o g)

FilterDuplicatePricesKeepLast(entries) ==
    LET RECURSIVE Scan(_, _, _, _)
        Scan(first, second, f, out) ==
            LET g == IF f = <<>> THEN <<entries[first]>> ELSE f
            IN  IF second >= Len(entries) + 1 THEN out \o g
                ELSE IF g[1].price_dollars_str
                            = entries[second].price_dollars_str
                     THEN Scan(first, second + 1, <<entries[second]>>, out)
                     ELSE Scan(second, second + 1, <<>>, out \o g)
    IN  IF Len(entries) > 1 THEN Scan(1, 2, <<>>, <<>>) ELSE entries

FilterDuplicatePricesKeepFirstMax(entries) ==
    LET RECURSIVE Scan(_, _, _, _)
        Scan(first, second, f, out) ==
            LET g == IF f = <<>> THEN <<entries[first]>> ELSE f
            IN  IF second >= Len(entries) + 1 THEN out \o g
                ELSE IF g[1].price_dollars_str
                            = entries[second].price_dollars_str
                     THEN Scan(first, second + 1, g, out)
                     ELSE Scan(second, second + 1, <<>>, out \o g)
    IN  IF Len(entries) > 1 THEN Scan(1, 2, <<>>, <<>>) ELSE entries

FilterDuplicatePricesAlwaysAppend(entries) ==
    IF Len(entries) > 1
    THEN DupScan(entries, 1, 2, <<>>, <<>>)
    ELSE entries \o (IF Len(entries) = 0
                     THEN <<PriceEntry(1, None, <<"0", ".", "0">>)>>
                     ELSE <<>>)

\* Price.filter_duplicate_prices
FilterDuplicatePrices(entries) ==
    IF Len(entries) > 1
    THEN DupScan(entries, 1, 2, <<>>, <<>>)
    ELSE entries

\* The token of one entry in the stored price string (also __repr__).
EntryToken(entry) ==
    IntToStr(entry.min_quantity) \o <<"-">>
    \o (IF entry.max_quantity # None
        THEN IntToStr(entry.max_quantity) ELSE <<>>)
    \o <<":">> \o entry.price_dollars_str

RECURSIVE Join(_, _)
\* sep.join(parts)
Join(sep, parts) ==
    IF Len(parts) = 0 THEN <<>>
    ELSE IF Len(parts) = 1 THEN parts[1]
    ELSE parts[1] \o sep \o Join(sep, Tail(parts))

PriceStrMinTwice(entries) ==
    Join(<<",">>,
         [i \in 1..Len(entries) |->
            IntToStr(entries[i].min_quantity) \o <<"-">>
            \o IntToStr(entries[i].min_quantity)
            \o <<":">> \o entries[i].price_dollars_str])

\* The price string load_tables stores for a normalised list.
PriceStr(entries) ==
    Join(<<",">>, [i \in 1..Len(entries) |-> EntryToken(entries[i])])

\* ------------------------------------------------------------------------
\* Python str methods
\* ------------------------------------------------------------------------

UpperChars == <<"A", "B", "C", "D", "E", "F", "G", "H", "I", "J", "K", "L", "M", "N", "O", "P", "Q", "R", "S", "T", "U", "V", "W", "X", "Y", "Z">>

LowerChars == <<"a", "b", "c", "d", "e", "f", "g", "h", "i", "j", "k", "l", "m", "n", "o", "p", "q", "r", "s", "t", "u", "v", "w", "x", "y", "z">>

LowerChar(ch) ==
    IF \E i \in 1..26 : UpperChars[i] = ch
    THEN LowerChars[CHOOSE i \in 1..26 : UpperChars[i] = ch]
    ELSE ch

\* s.lower()
Lower(s) == [i \in 1..Len(s) |-> LowerChar(s[i])]

\* sub occurs in s at index i.
OccursAt(s, sub, i) ==
    /\ i >= 1
    /\ i + Len(sub) - 1 <= Len(s)
    /\ SubSeq(s, i, i + Len(sub) - 1) = sub

\* sub in s
Contains(s, sub) == \E i \in 1..(Len(s) + 1) : OccursAt(s, sub, i)

RECURSIVE ReplaceFrom(_, _, _, _)
\* The rest of s.replace(old, new) from index i on, for a non-empty old:
\* occurrences are taken left to right and do not overlap.
ReplaceFrom(s, old, new, i) ==
    IF i > Len(s) THEN <<>>
    ELSE IF OccursAt(s, old, i)
         THEN new \o ReplaceFrom(s, old, new, i + Len(old))
         ELSE <<s[i]>> \o ReplaceFrom(s, old, new, i + 1)

RECURSIVE Interleave(_, _)
\* s.replace("", new): new before every character and at the end.
Interleave(s, new) ==
    IF Len(s) = 0 THEN new
    ELSE new \o <<Head(s)>> \o Interleave(Tail(s), new)

\* s.replace(old, new)
Replace(s, old, new) ==
    IF Len(old) = 0 THEN Interleave(s, new) ELSE ReplaceFrom(s, old, new, 1)

\* str.isspace() of one character.
IsSpace(ch) == ch \in {" ", "\t", "\n"}

RECURSIVE LStrip(_)
LStrip(s) == IF Len(s) > 0 /\ IsSpace(Head(s)) THEN LStrip(Tail(s)) ELSE s

RECURSIVE RStrip(_)
RStrip(s) ==
    IF Len(s) > 0 /\ IsSpace(s[Len(s)])
    THEN RStrip(SubSeq(s, 1, Len(s) - 1))
    ELSE s

\* s.strip()
Strip(s) == RStrip(LStrip(s))

\* ------------------------------------------------------------------------
\* The description and library type of a row (Generate.load_tables)
\* ------------------------------------------------------------------------

\* A JSON null where text is expected.
JsonNull == <<"null">>

\* A dict with no key.
EmptyDict == [k \in {} |-> <<>>]

\* json.loads of the extra column: whether it raises, and the decoded value.
JsonLoads(text) ==
    [raises |-> text.kind = "malformed",
     value  |-> [kind |-> text.kind, obj |-> text.obj]]

\* "description" in extra: for a dict the key test, for a list the element
\* test (no element of the model's lists is that string); a number has no
\* such test and raises TypeError.
InRaises(extra) == extra.kind = "number"

HasDescription(extra) ==
    extra.kind = "object" /\ "description" \in DOMAIN extra.obj

ResolveDescriptionUncaught(row) ==
    IF row.extra.kind = "NULL"
    THEN [description |-> row.description, raised |-> ""]
    ELSE IF JsonLoads(row.extra).raises
         THEN [description |-> row.description, raised |-> "JSONDecodeError"]
         ELSE IF ~InRaises(JsonLoads(row.extra).value)
                 /\ HasDescription(JsonLoads(row.extra).value)
              THEN [description |-> JsonLoads(row.extra).value.obj["description"],
                    raised |-> ""]
              ELSE [description |-> row.description, raised |-> ""]

\* description = c["description"], overridden by extra["description"] when
\* the extra column is not NULL, decodes, and holds that key.  Whatever the
\* try block raises is swallowed.
ResolveDescription(row) ==
    IF row.extra.kind = "NULL"
    THEN [description |-> row.description, raised |-> ""]
    ELSE IF JsonLoads(row.extra).raises
         THEN [description |-> row.description, raised |-> ""]
         ELSE IF ~InRaises(JsonLoads(row.extra).value)
                 /\ HasDescription(JsonLoads(row.extra).value)
              THEN [description |-> JsonLoads(row.extra).value.obj["description"],
                    raised |-> ""]
              ELSE [description |-> row.description, raised |-> ""]

\* The ROHS step: " not ROHS" is appended when " rohs" is not in the
\* lower-cased description, else every " ROHS" (in that case only) is removed.
RohsStep(d) ==
    IF ~Contains(Lower(d), Lower(<<" ", "R", "O", "H", "S">>))
    THEN d \o <<" ", "n", "o", "t", " ", "R", "O", "H", "S">>
    ELSE Replace(d, <<" ", "R", "O", "H", "S">>, <<>>)

\* The whitespace step: the result of description.replace("  ", " ") is not
\* assigned, so only strip() changes the description.
SpaceStep(d) == Strip(d)

\* The cleanup of a description: the ROHS step, the removal of the second
\* category, the removal of the package, the whitespace step.
Cleanup(d, second_category, package) ==
    SpaceStep(Replace(Replace(RohsStep(d), second_category, <<>>), package, <<>>))

\* A flag column is true when it is neither 0 nor NULL.
Truthy(v) == v # 0

LibraryTypePreferredFirst(row) ==
    IF Truthy(row.preferred) THEN <<"P", "r", "e", "f", "e", "r", "r", "e", "d">>
    ELSE IF Truthy(row.basic) THEN <<"B", "a", "s", "i", "c">>
    ELSE <<"E", "x", "t", "e", "n", "d", "e", "d">>

\* Generate.library_type
LibraryType(row) ==
    IF Truthy(row.basic) THEN <<"B", "a", "s", "i", "c">>
    ELSE IF Truthy(row.preferred) THEN <<"P", "r", "e", "f", "e", "r", "r", "e", "d">>
    ELSE <<"E", "x", "t", "e", "n", "d", "e", "d">>

\* ------------------------------------------------------------------------
\* The queries of the run (Generate.component_where_clause, load_tables,
\* populate_categories)
\* ------------------------------------------------------------------------

\* int(time.time()) of the run, in seconds.
Now == 200000

\* component_where_clause: with a threshold of 0 days every row matches; else
\* a row is left out when it has no stock and was last on stock before
\* filter_seconds.
WhereClause(row, threshold_days) ==
    IF threshold_days > 0
    THEN ~(row.stock = 0
           /\ row.last_on_stock < Now - threshold_days * 24 * 60 * 60)
    ELSE TRUE

RECURSIVE Select(_, _)
\* SELECT ... FROM components <where clause>: the matching rows in table order.
Select(table, threshold_days) ==
    IF Len(table) = 0 THEN <<>>
    ELSE (IF WhereClause(Head(table), threshold_days)
          THEN <<Head(table)>> ELSE <<>>)
         \o Select(Tail(table), threshold_days)

FetchManyOneLess(cursor, n) ==
    SubSeq(cursor, 1, IF Len(cursor) < n - 1 THEN Len(cursor) ELSE n - 1)

\* cursor.fetchmany(size): the next rows, at most size of them.
FetchMany(cursor, n) ==
    SubSeq(cursor, 1, IF Len(cursor) < n THEN Len(cursor) ELSE n)

AfterFetchRewinding(cursor, n) ==
    cursor

AfterFetchSkipping(cursor, n) ==
    SubSeq(cursor, (IF Len(cursor) < n + 1 THEN Len(cursor) ELSE n + 1) + 1,
           Len(cursor))

\* The rows the cursor holds after fetchmany(size).
AfterFetch(cursor, n) ==
    SubSeq(cursor, (IF Len(cursor) < n THEN Len(cursor) ELSE n) + 1, Len(cursor))

\* The percentage (deleted / total) * 100 of the statistics line in
\* hundredths, as ":.2f" rounds it, and 0 for a total of 0.  A total below 32
\* has no quotient half-way between two hundredths, so the nearest hundredth
\* is the rounding of the double too.
RatioHundredths(deleted, total) ==
    IF total # 0 THEN (20000 * deleted + total) \div (2 * total) ELSE 0

\* f"{x:.2f}" of a value given in hundredths.
Format2f(h) ==
    IntToStr(h \div 100) \o <<".">>
    \o <<DigitChars[((h % 100) \div 10) + 1], DigitChars[(h % 10) + 1]>>

StatsLineSkippedWhenEmpty(deleted, duplicates, total) ==
    IF total = 0 THEN <<>>
    ELSE <<[deleted    |-> deleted,
            duplicates |-> duplicates,
            total      |-> total,
            percent    |-> Format2f(RatioHundredths(deleted, total))]>>

\* The statistics line load_tables prints: its three counts and its percentage.
StatsLine(deleted, duplicates, total) ==
    <<[deleted    |-> deleted,
       duplicates |-> duplicates,
       total      |-> total,
       percent    |-> Format2f(RatioHundredths(deleted, total))]>>

UpperChar(ch) ==
    IF \E i \in 1..26 : LowerChars[i] = ch
    THEN UpperChars[CHOOSE i \in 1..26 : LowerChars[i] = ch]
    ELSE ch

\* SQL UPPER(s)
Upper(s) == [i \in 1..Len(s) |-> UpperChar(s[i])]

\* The characters of the model's texts in code order.
CodePoints ==
    <<"\t", "\n", " ", ",", "-", ".">> \o DigitChars \o <<":">>
    \o UpperChars \o LowerChars

Ord(ch) == CHOOSE i \in 1..Len(CodePoints) : CodePoints[i] = ch

RECURSIVE TextLess(_, _)
\* a < b in the BINARY collation: by code, a proper prefix first.
TextLess(a, b) ==
    IF Len(b) = 0 THEN FALSE
    ELSE IF Len(a) = 0 THEN TRUE
    ELSE IF Head(a) = Head(b) THEN TextLess(Tail(a), Tail(b))
    ELSE Ord(Head(a)) < Ord(Head(b))

\* One pair sorts before another by the binary order of the columns.
OrderKeyLessBinary(p, q) ==
    \/ TextLess(p[1], q[1])
    \/ p[1] = q[1] /\ TextLess(p[2], q[2])

\* ORDER BY UPPER("First Category"), UPPER("Second Category")
OrderKeyLess(p, q) ==
    \/ TextLess(Upper(p[1]), Upper(q[1]))
    \/ Upper(p[1]) = Upper(q[1]) /\ TextLess(Upper(p[2]), Upper(q[2]))

RECURSIVE OrderBy(_)
\* The pairs of S in the order of the ORDER BY clause.  (The order of two
\* pairs that differ only in case is not fixed by the clause; the lookup
\* tables of the model hold no such two pairs.)
OrderBy(S) ==
    IF S = {} THEN <<>>
    ELSE LET m == CHOOSE p \in S : \A q \in S : ~OrderKeyLess(q, p)
         IN  <<m>> \o OrderBy(S \ {m})

\* SELECT DISTINCT "First Category", "Second Category" FROM parts
DistinctPairs(table) ==
    { <<table[i].First_Category, table[i].Second_Category>> : i \in 1..Len(table) }

SelectCategoriesAll(table) ==
    LET RECURSIVE Sorted(_)
        Sorted(t) ==
            IF Len(t) = 0 THEN <<>>
            ELSE LET S == { i \in 1..Len(t) :
                              \A j \in 1..Len(t) : ~OrderKeyLess(t[j], t[i]) }
                     m == CHOOSE i \in S : \A j \in S : i <= j
                 IN  <<t[m]>> \o Sorted([k \in 1..(Len(t) - 1) |->
                                            IF k < m THEN t[k] ELSE t[k + 1]])
    IN  Sorted([i \in 1..Len(table) |->
                   <<table[i].First_Category, table[i].Second_Category>>])

\* The rows populate_categories inserts.
SelectCategories(table) ==
    OrderBy(DistinctPairs(table))

\* ------------------------------------------------------------------------
\* Inputs
\* ------------------------------------------------------------------------

\* Price strings of the catalog: distinct prices above the cutoff, two
\* spellings of one price, the cutoff itself, a price that rounds up to the
\* cutoff, a decimal tie just below it that rounds down, and a price below it.
PriceStrings ==
    { <<"0", ".", "4">>,
      <<"0", ".", "3">>,
      <<"0", ".", "3", "0">>,
      <<"0", ".", "0", "1">>,
      <<"0", ".", "0", "0", "9", "6">>,
      <<"0", ".", "0", "0", "9", "5">>,
      <<"0", ".", "0", "0", "4">> }

\* What the catalog chooses for one tier: whether it is bounded, and its price.
TierChoices == BOOLEAN \X PriceStrings

\* The decoded price payload (json.loads of the price column) of the tiers f:
\* each tier starts where the previous one would end and is bounded or
\* open-ended.
Payload(f) ==
    [i \in 1..Len(f) |->
        [qFrom |-> (i - 1) * TierWidth + 1,
         qTo   |-> IF f[i][1] THEN i * TierWidth ELSE None,
         price |-> f[i][2]]]

\* p is the payload of at most MaxLen tiers.
IsPayload(p) ==
    \E n \in 0..MaxLen : \E f \in [1..n -> TierChoices] : p = Payload(f)

\* Cutoffs of the unit calls: 0.01 (load_tables) and 0.3 (the unit test).
Cutoffs == {100, 3000}

\* The fixed cutoff of load_tables, 0.01.
CutoffPriceDollars == 100

\* The manufacturers table: id -> name.
MansTable == [i \in {1} |-> <<"A", "c", "m", "e">>]

\* The categories table: id -> (first category, second category).
CatsTable ==
    [i \in {1, 2, 4} |->
        IF i = 1 THEN <<<<"R", "e", "s">>, <<"C", "h", "i", "p">>>>
        ELSE IF i = 2 THEN <<<<"O", "p", "t", "o">>, <<"L", "E", "D">>>>
        ELSE <<<<"o", "p", "t", "o">>, <<"L", "a", "s", "e", "r">>>>]

\* Raw descriptions: the token in upper case with the category and the
\* package repeated, in mixed case, in lower case between blanks, absent
\* with a doubled blank and a tab, the empty description, and a description
\* the package splits the category in.
Descriptions ==
    { <<"1", "0", "k", " ", "C", "h", "i", "p", " ", "0", "8", "0", "5", " ", "R", "O", "H", "S">>,
      <<"L", "E", "D", " ", "r", "e", "d", " ", "R", "o", "H", "S">>,
      <<" ", "C", "h", "i", "p", " ", "r", "o", "h", "s", " ">>,
      <<"L", "E", "D", " ", " ", "r", "e", "d", "\t", "x">>,
      <<>>,
      <<"C", "h", "0", "8", "0", "5", "i", "p", " ", "R", "O", "H", "S">> }

\* The extra column: NULL, text that does not decode, and text that decodes
\* to a list, a number, or a dict with or without the description keys.
Extras ==
    { [kind |-> "NULL", obj |-> EmptyDict],
      [kind |-> "malformed", obj |-> EmptyDict],
      [kind |-> "array", obj |-> EmptyDict],
      [kind |-> "number", obj |-> EmptyDict],
      [kind |-> "object", obj |-> EmptyDict],
      [kind |-> "object", obj |-> [k \in {"description"} |-> <<"L", "E", "D", " ", "x", " ", "R", "O", "H", "S">>]],
      [kind |-> "object", obj |-> [k \in {"describe"} |-> <<"C", "h", "i", "p", " ", "y">>]],
      [kind |-> "object", obj |->
          [k \in {"description", "describe"} |->
              IF k = "description" THEN <<"L", "E", "D", " ", "x", " ", "R", "O", "H", "S">> ELSE <<"C", "h", "i", "p", " ", "y">>]],
      [kind |-> "object", obj |-> [k \in {"description"} |-> JsonNull]] }

\* Package names: one that descriptions repeat, and the empty name.
Packages == { <<"0", "8", "0", "5">>, <<>> }

\* The rows of the components table the row translation is run on.  Category
\* id 3 and manufacturer id 2 are in no lookup table.
Rows ==
    [lcsc : {8}, category_id : {1, 2, 3}, mfr : {<<"M", "1">>}, package : Packages,
     joints : {2}, manufacturer_id : {1, 2}, basic : {0, 1},
     preferred : {0, 1}, description : Descriptions,
     datasheet : {<<"u">>}, stock : {5}, extra : Extras]

\* The price payloads of those rows: none, one entry, and three tiers of
\* which the last two round to one price.
RowPayloads ==
    { <<>>,
      <<[qFrom |-> 1, qTo |-> None, price |-> <<"0", ".", "4">>]>>,
      <<[qFrom |-> 1, qTo |-> 10, price |-> <<"0", ".", "3">>],
        [qFrom |-> 11, qTo |-> 20, price |-> <<"0", ".", "0", "1", "0", "4">>],
        [qFrom |-> 21, qTo |-> None, price |-> <<"0", ".", "0", "1">>]>> }

\* A row for the specifications that translate no row.
NoRow == CHOOSE r \in Rows : TRUE

\* The kinds of rows of the components table of a run: a basic part of
\* category 1 with three price tiers of which two round to one price; a part
\* of category 2 with no price, out of stock for long; a preferred part of
\* category 4 with a tier below the cutoff, out of stock since recently; a
\* part whose category id, and one whose manufacturer id, is in no table.
ComponentKinds ==
    LET base == [lcsc |-> 0, category_id |-> 1, mfr |-> <<"M", "1">>,
                 package |-> <<"0", "8", "0", "5">>, joints |-> 2, manufacturer_id |-> 1,
                 basic |-> 0, preferred |-> 0,
                 description |-> <<"1", "0", "k", " ", "C", "h", "i", "p", " ", "0", "8", "0", "5", " ", "R", "O", "H", "S">>,
                 datasheet |-> <<"u">>, stock |-> 5, last_on_stock |-> 150000,
                 price |-> <<[qFrom |-> 1, qTo |-> None, price |-> <<"0", ".", "4">>]>>,
                 extra |-> [kind |-> "NULL", obj |-> EmptyDict]]
    IN  << [base EXCEPT !.basic = 1,
                        !.price = <<[qFrom |-> 1, qTo |-> 10, price |-> <<"0", ".", "3">>],
                                    [qFrom |-> 11, qTo |-> 20, price |-> <<"0", ".", "0", "1", "0", "4">>],
                                    [qFrom |-> 21, qTo |-> None, price |-> <<"0", ".", "0", "1">>]>>],
           [base EXCEPT !.category_id = 2, !.description = <<"L", "E", "D", " ", "r", "e", "d", " ", "R", "o", "H", "S">>,
                        !.stock = 0, !.last_on_stock = 100000,
                        !.price = <<>>],
           [base EXCEPT !.category_id = 4, !.preferred = 1,
                        !.description = <<"L", "a", "s", "e", "r", " ", "5", "m", "W">>, !.stock = 0,
                        !.price = <<[qFrom |-> 1, qTo |-> 10, price |-> <<"0", ".", "4">>],
                                    [qFrom |-> 11, qTo |-> None, price |-> <<"0", ".", "0", "0", "4">>]>>],
           [base EXCEPT !.category_id = 3],
           [base EXCEPT !.manufacturer_id = 2] >>

\* The components table whose i-th row is of kind f[i]; lcsc is the key.
ComponentsOf(f) ==
    [i \in 1..Len(f) |-> [ComponentKinds[f[i]] EXCEPT !.lcsc = i]]

\* t is a components table of at most MaxRows rows.
IsComponents(t) ==
    \E n \in 0..MaxRows :
        \E f \in [1..n -> 1..Len(ComponentKinds)] : t = ComponentsOf(f)

\* ------------------------------------------------------------------------
\* State
\* ------------------------------------------------------------------------

\* ------------------------------------------------------------------------
\* FileManager (filemgr.py): names, texts and files
\* ------------------------------------------------------------------------

MaxCalls == 3

MaxChunks == 2

\* The names tempfile.mkdtemp can return; it returns one that does not exist.
TempNames == {1, 2}

\* An output_dir argument that is not the current directory.
OutDir == 3

\* sentinel_filename, by default
SentinelFilename == <<"c", "h", "u", "n", "k", "_", "n", "u", "m", ".", "t", "x", "t">>

\* compressed_output_file.name
CompressedName == <<"d", "b", ".", "z", "i", "p">>

\* f"{n:03d}" of a non-negative int: at least three digits, zero-padded.
Format03d(n) ==
    LET digits == IntToStr(n)
    IN  IF Len(digits) >= 3 THEN digits
        ELSE [k \in 1..(3 - Len(digits)) |-> "0"] \o digits

\* SplitTracker.gen_split: the name of the file the generator opens next,
\* after the prefix str(output_prefix) + ".".
GenSplitName(files) ==
    CompressedName \o <<".">> \o Format03d(Len(files))

\* tracker.files after the writer has asked gen_split for n files
RECURSIVE GenSplit(_, _)
GenSplit(files, n) ==
    IF n = 0 THEN files
    ELSE GenSplit(Append(files, GenSplitName(files)), n - 1)

\* chunk_filename of download_from_github for the loop variable i
ChunkFilename(k) ==
    CompressedName \o <<".">> \o Format03d(k)

\* The elements of a list, as a set.
Range(list) == {list[k] : k \in DOMAIN list}

\* str.startswith, as the glob pattern f"{name}*" matches
StartsWith(name, prefix) ==
    /\ Len(name) >= Len(prefix)
    /\ SubSeq(name, 1, Len(prefix)) = prefix

\* int(text) of a stripped text: an optional sign and one digit or more.
ParseInt(text) ==
    LET signed == Len(text) >= 1 /\ text[1] \in {"+", "-"}
        digits == IF signed THEN Tail(text) ELSE text
        ok     == Len(digits) >= 1 /\ \A k \in DOMAIN digits : IsDigit(digits[k])
    IN  [ok    |-> ok,
         value |-> IF ~ok THEN 0
                   ELSE IF signed /\ text[1] = "-" THEN 0 - StrToInt(digits)
                   ELSE StrToInt(digits)]

\* A file of the given name and text in directory dir replaces the file of
\* that name there.
WriteFile(files, dir, name, text) ==
    {file \in files : ~(file.dir = dir /\ file.name = name)}
        \cup {[dir |-> dir, name |-> name, text |-> text]}

RECURSIVE WriteFiles(_, _, _)
WriteFiles(files, dir, names) ==
    IF names = <<>> THEN files
    ELSE WriteFiles(WriteFile(files, dir, Head(names), <<>>), dir, Tail(names))

\* What the url serves when the output of a split into n chunks is uploaded
\* as it is: the sentinel and the chunk files split wrote.
Published(n) ==
    [present  |-> TRUE,
     sentinel |-> IntToStr(Len(GenSplit(<<>>, n))),
     chunks   |-> Range(GenSplit(<<>>, n))]

\* A url that serves n chunks under the names download_from_github asks for.
Numbered(n) ==
    [present  |-> TRUE,
     sentinel |-> <<" ">> \o IntToStr(n) \o <<"\n">>,
     chunks   |-> {ChunkFilename(k) : k \in 1..n}]

Remotes ==
    {Published(n) : n \in 1..MaxChunks}
        \cup {Numbered(n) : n \in 0..MaxChunks}
        \cup {[present |-> FALSE, sentinel |-> <<>>, chunks |-> {}],
              [present |-> TRUE, sentinel |-> <<"x">>, chunks |-> {}],
              [present |-> TRUE, sentinel |-> <<>>, chunks |-> {}],
              [present |-> TRUE, sentinel |-> <<"-", "1">>, chunks |-> {}]}

VARIABLES
    priceInput,      \* the decoded price payload of the row
    entries,         \* price.price_entries: the parsed list, as its objects are now
    cutoff,          \* unit call: the cutoff argument
    op,              \* unit call: the static method that was called, or "new"
    arg,             \* unit call: the argument list as it was when the call began
    ret,             \* unit call: the returned list
    pc,             \* load_tables: position in the price block of the row
    price_entries,   \* load_tables: the local price_entries
    price_entries_cutoff,
    price_entries_unique,
    price_str,
    price_entries_total,
    price_entries_deleted_total,
    price_entries_duplicates_deleted_total,
    c,               \* load_tables: the row being translated
    mans,            \* load_tables: the manufacturers lookup table
    cats,            \* load_tables: the categories lookup table
    description,     \* load_tables: the local description
    rows,            \* load_tables: the part rows built so far
    raised,          \* the exception that ended the translation, or ""
    components,      \* the components table of the jlcparts database
    obsolete_parts_threshold_days,
    size,            \* the size argument of fetchmany
    res,             \* load_tables: the rows the cursor has not returned yet
    comps,           \* load_tables: the batch fetchmany returned
    cidx,            \* load_tables: how many rows of comps the for loop has taken
    part_count,      \* self.part_count
    parts,           \* the committed rows of the parts table of the output
    categories,      \* the rows of the categories table of the output
    meta,            \* the rows of the meta table of the output
    optimized,       \* whether the FTS5 optimize command has run
    reads,           \* the counts printed by "Read N parts", in order
    stats,           \* the statistics line load_tables printed last, or none
    run,             \* Generate.build: the step the run is at
    first,           \* filter_duplicate_prices: index of the entry being merged
    second,          \* filter_duplicate_prices: index of the entry compared next
    pending,         \* filter_duplicate_prices: the local f, as a list of no
                     \* entry (None) or of the one copy
    file_exists,     \* FileManager: whether file_path exists
    zip_chunks,      \* FileManager: chunks the compressed file_path fills
    use_temp_dir,    \* FileManager.use_temp_dir
    temp_dir,        \* FileManager.temp_dir
    tempdirs,        \* the temporary directories that exist on disk
    disk,            \* the files written to the work and output directories
    remote,          \* what the GitHub url serves
    calls,           \* the FileManager methods that have returned, in order
    ctx,             \* position in a with statement over the FileManager
    requests,        \* download_from_github: the requests made, in order
    dl,              \* download_from_github: position, or the exception raised
    output_dir,      \* download_from_github: the local output_dir
    download_dir,    \* download_from_github: the local download_dir
    chunk_count,     \* download_from_github: the parsed sentinel
    chunk_index      \* download_from_github: the loop variable i

unitVars == <<cutoff, op, arg, ret>>

loadVars == <<pc, price_entries, price_entries_cutoff, price_entries_unique,
              price_str, price_entries_total, price_entries_deleted_total,
              price_entries_duplicates_deleted_total>>

rowVars == <<c, mans, cats, description, rows, raised>>

runVars == <<components, obsolete_parts_threshold_days, size, res, comps, cidx,
             part_count, parts, categories, meta, optimized, reads, stats, run>>

scanVars == <<first, second, pending>>

fmVars == <<file_exists, zip_chunks, use_temp_dir, temp_dir, tempdirs, disk,
            remote, calls, ctx, requests, dl, output_dir, download_dir,
            chunk_count, chunk_index>>

vars == <<priceInput, entries, unitVars, loadVars, rowVars, runVars, scanVars,
          fmVars>>

\* Path("."), the work directory when no temporary directory is used.
CurDir == -1

\* No call of filter_duplicate_prices is being stepped through.
ScanIdle ==
    /\ first = 0
    /\ second = 0
    /\ pending = <<>>

\* No FileManager has been constructed.
FmIdle ==
    /\ file_exists = FALSE
    /\ zip_chunks = 0
    /\ use_temp_dir = FALSE
    /\ temp_dir = None
    /\ tempdirs = {}
    /\ disk = {}
    /\ remote = [present |-> FALSE, sentinel |-> <<>>, chunks |-> {}]
    /\ calls = <<>>
    /\ ctx = "out"
    /\ requests = <<>>
    /\ dl = "idle"
    /\ output_dir = CurDir
    /\ download_dir = CurDir
    /\ chunk_count = 0
    /\ chunk_index = 0

\* No run of Generate.build is in progress.
RunIdle ==
    /\ components = <<>>
    /\ obsolete_parts_threshold_days = 0
    /\ size = 1
    /\ res = <<>>
    /\ comps = <<>>
    /\ cidx = 0
    /\ part_count = 0
    /\ parts = <<>>
    /\ categories = <<>>
    /\ meta = <<>>
    /\ optimized = FALSE
    /\ reads = <<>>
    /\ stats = <<>>
    /\ run = "none"

\* The row locals before the description of the row is read.
RowIdle ==
    /\ mans = MansTable
    /\ cats = CatsTable
    /\ description = <<>>
    /\ rows = <<>>
    /\ raised = ""

\* The load_tables locals before the row's price block has run.
LoadIdle ==
    /\ pc = "idle"
    /\ price_entries = <<>>
    /\ price_entries_cutoff = <<>>
    /\ price_entries_unique = <<>>
    /\ price_str = <<>>
    /\ price_entries_total = 0
    /\ price_entries_deleted_total = 0
    /\ price_entries_duplicates_deleted_total = 0

\* No unit call is in progress.
UnitIdle ==
    /\ cutoff = CutoffPriceDollars
    /\ op = "idle"
    /\ arg = <<>>
    /\ ret = <<>>

\* ------------------------------------------------------------------------
\* Unit calls of the static methods of Price (as the unit tests call them)
\* ------------------------------------------------------------------------

InitPrice ==
    /\ ScanIdle
    /\ FmIdle
    /\ IsPayload(priceInput)
    /\ entries = PriceInit(priceInput)
    /\ cutoff \in Cutoffs
    /\ op = "new"
    /\ arg = <<>>
    /\ ret = <<>>
    /\ LoadIdle
    /\ c = NoRow
    /\ RowIdle
    /\ RunIdle

CallReducePrecision ==
    /\ op = "new"
    /\ op' = "reduce_precision"
    /\ arg' = entries
    /\ entries' = ReducePrecision(entries)
    /\ ret' = ReducePrecision(entries)
    /\ UNCHANGED <<scanVars, fmVars, runVars, rowVars, priceInput, cutoff, loadVars>>

CallFilterBelowCutoff ==
    /\ op = "new"
    /\ op' = "filter_below_cutoff"
    /\ arg' = entries
    /\ entries' = FilterBelowCutoffArg(entries, cutoff)
    /\ ret' = FilterBelowCutoff(entries, cutoff)
    /\ UNCHANGED <<scanVars, fmVars, runVars, rowVars, priceInput, cutoff, loadVars>>

CallFilterDuplicatePrices ==
    /\ op = "new"
    /\ op' = "filter_duplicate_prices"
    /\ arg' = entries
    /\ ret' = FilterDuplicatePrices(entries)
    /\ UNCHANGED <<scanVars, fmVars, runVars, rowVars, priceInput, entries, cutoff, loadVars>>

NextPrice ==
    \/ CallReducePrecision
    \/ CallFilterBelowCutoff
    \/ CallFilterDuplicatePrices

SpecPrice == InitPrice /\ [][NextPrice]_vars

\* ------------------------------------------------------------------------
\* The price block of one row of Generate.load_tables
\* ------------------------------------------------------------------------

InitLoadPrice ==
    /\ ScanIdle
    /\ FmIdle
    /\ IsPayload(priceInput)
    /\ entries = <<>>
    /\ UnitIdle
    /\ LoadIdle
    /\ c = NoRow
    /\ RowIdle
    /\ RunIdle

\* price = Price(priceInput)
LoadParse ==
    /\ pc = "idle"
    /\ pc' = "parsed"
    /\ entries' = PriceInit(priceInput)
    /\ UNCHANGED <<scanVars, fmVars, runVars, rowVars, priceInput, unitVars, price_entries, price_entries_cutoff,
                   price_entries_unique, price_str, price_entries_total,
                   price_entries_deleted_total,
                   price_entries_duplicates_deleted_total>>

\* price_entries = Price.reduce_precision(price.price_entries)
LoadReduce ==
    /\ pc = "parsed"
    /\ pc' = "reduced"
    /\ entries' = ReducePrecision(entries)
    /\ price_entries' = ReducePrecision(entries)
    /\ price_entries_total' = price_entries_total + Len(price_entries')
    /\ UNCHANGED <<scanVars, fmVars, runVars, rowVars, priceInput, unitVars, price_entries_cutoff,
                   price_entries_unique, price_str,
                   price_entries_deleted_total,
                   price_entries_duplicates_deleted_total>>

\* price_entries_cutoff = Price.filter_below_cutoff(price_entries, 0.01);
\* price_entries = price_entries_cutoff
LoadCutoff ==
    /\ pc = "reduced"
    /\ pc' = "cutoff"
    /\ price_entries_cutoff' = FilterBelowCutoff(price_entries, CutoffPriceDollars)
    /\ entries' = FilterBelowCutoffArg(price_entries, CutoffPriceDollars)
    /\ price_entries_deleted_total' =
           price_entries_deleted_total
           + (Len(price_entries) - Len(price_entries_cutoff'))
    /\ price_entries' = price_entries_cutoff'
    /\ UNCHANGED <<scanVars, fmVars, runVars, rowVars, priceInput, unitVars, price_entries_unique, price_str,
                   price_entries_total,
                   price_entries_duplicates_deleted_total>>

LoadUniqueCountingOnce ==
    /\ pc = "cutoff"
    /\ pc' = "unique"
    /\ price_entries_unique' = FilterDuplicatePrices(price_entries)
    /\ price_entries_duplicates_deleted_total' =
           price_entries_duplicates_deleted_total
           + (Len(price_entries) - Len(price_entries_unique'))
    /\ price_entries' = price_entries_unique'
    /\ UNCHANGED <<scanVars, fmVars, runVars, rowVars, priceInput, entries,
                   unitVars, price_entries_cutoff, price_str,
                   price_entries_total, price_entries_deleted_total>>

\* price_entries_unique = Price.filter_duplicate_prices(price_entries);
\* price_entries = price_entries_unique
LoadUnique ==
    /\ pc = "cutoff"
    /\ pc' = "unique"
    /\ price_entries_unique' = FilterDuplicatePrices(price_entries)
    /\ price_entries_duplicates_deleted_total' =
           price_entries_duplicates_deleted_total
           + (Len(price_entries) - Len(price_entries_unique'))
    /\ price_entries_deleted_total' =
           price_entries_deleted_total
           + (Len(price_entries) - Len(price_entries_unique'))
    /\ price_entries' = price_entries_unique'
    /\ UNCHANGED <<scanVars, fmVars, runVars, rowVars, priceInput, entries, unitVars, price_entries_cutoff,
                   price_str, price_entries_total>>

LoadSerializeCutoffList ==
    /\ pc = "unique"
    /\ pc' = "serialized"
    /\ price_str' = PriceStr(price_entries_cutoff)
    /\ UNCHANGED <<scanVars, fmVars, runVars, rowVars, priceInput, entries,
                   unitVars, price_entries, price_entries_cutoff,
                   price_entries_unique, price_entries_total,
                   price_entries_deleted_total,
                   price_entries_duplicates_deleted_total>>

\* price_str = ",".join(...)
LoadSerialize ==
    /\ pc = "unique"
    /\ pc' = "serialized"
    /\ price_str' = PriceStr(price_entries)
    /\ UNCHANGED <<scanVars, fmVars, runVars, rowVars, priceInput, entries, unitVars, price_entries,
                   price_entries_cutoff, price_entries_unique,
                   price_entries_total, price_entries_deleted_total,
                   price_entries_duplicates_deleted_total>>

NextLoadPrice ==
    \/ LoadParse
    \/ LoadReduce
    \/ LoadCutoff
    \/ LoadUnique
    \/ LoadSerialize

SpecLoadPrice == InitLoadPrice /\ [][NextLoadPrice]_vars

\* ------------------------------------------------------------------------
\* The body of the row loop of Generate.load_tables, for one row
\* ------------------------------------------------------------------------

InitRow ==
    /\ ScanIdle
    /\ FmIdle
    /\ priceInput \in RowPayloads
    /\ entries = <<>>
    /\ UnitIdle
    /\ LoadIdle
    /\ c \in Rows
    /\ RowIdle
    /\ RunIdle

\* description = c["description"]; the override from c["extra"]
RowDescription ==
    /\ pc = "serialized"
    /\ description' = ResolveDescription(c).description
    /\ raised' = ResolveDescription(c).raised
    /\ pc' = IF raised' = "" THEN "described" ELSE "raised"
    /\ UNCHANGED <<scanVars, fmVars, runVars, priceInput, entries, unitVars, price_entries,
                   price_entries_cutoff, price_entries_unique, price_str,
                   price_entries_total, price_entries_deleted_total,
                   price_entries_duplicates_deleted_total,
                   c, mans, cats, rows>>

\* The ROHS step.  description.lower() raises AttributeError when the
\* override was not text.
RowRohs ==
    /\ pc = "described"
    /\ IF description = JsonNull
       THEN /\ pc' = "raised"
            /\ raised' = "AttributeError"
            /\ UNCHANGED description
       ELSE /\ pc' = "rohs"
            /\ description' = RohsStep(description)
            /\ UNCHANGED raised
    /\ UNCHANGED <<scanVars, fmVars, runVars, priceInput, entries, unitVars, price_entries,
                   price_entries_cutoff, price_entries_unique, price_str,
                   price_entries_total, price_entries_deleted_total,
                   price_entries_duplicates_deleted_total,
                   c, mans, cats, rows>>

\* second_category = cats[c["category_id"]][1] raises KeyError for an id that
\* is not in the table; else the second category is removed from the
\* description.
RowCategory ==
    /\ pc = "rohs"
    /\ IF c.category_id \notin DOMAIN cats
       THEN /\ pc' = "raised"
            /\ raised' = "KeyError"
            /\ UNCHANGED description
       ELSE /\ pc' = "category"
            /\ description' = Replace(description, cats[c.category_id][2], <<>>)
            /\ UNCHANGED raised
    /\ UNCHANGED <<scanVars, fmVars, runVars, priceInput, entries, unitVars, price_entries,
                   price_entries_cutoff, price_entries_unique, price_str,
                   price_entries_total, price_entries_deleted_total,
                   price_entries_duplicates_deleted_total,
                   c, mans, cats, rows>>

\* package = c["package"]; the package is removed from the description.
RowPackage ==
    /\ pc = "category"
    /\ pc' = "package"
    /\ description' = Replace(description, c.package, <<>>)
    /\ UNCHANGED <<scanVars, fmVars, runVars, priceInput, entries, unitVars, price_entries,
                   price_entries_cutoff, price_entries_unique, price_str,
                   price_entries_total, price_entries_deleted_total,
                   price_entries_duplicates_deleted_total,
                   c, mans, cats, rows, raised>>

\* description.replace("  ", " "); description = description.strip()
RowSpaces ==
    /\ pc = "package"
    /\ pc' = "stripped"
    /\ description' = SpaceStep(description)
    /\ UNCHANGED <<scanVars, fmVars, runVars, priceInput, entries, unitVars, price_entries,
                   price_entries_cutoff, price_entries_unique, price_str,
                   price_entries_total, price_entries_deleted_total,
                   price_entries_duplicates_deleted_total,
                   c, mans, cats, rows, raised>>

RowAssembleGuessing ==
    /\ pc = "stripped"
    /\ pc' = "done"
    /\ rows' = Append(rows,
          [LCSC_Part       |-> <<"C">> \o IntToStr(c.lcsc),
           First_Category  |-> cats[c.category_id][1],
           Second_Category |-> cats[c.category_id][2],
           MFR_Part        |-> c.mfr,
           Package         |-> c.package,
           Solder_Joint    |-> c.joints,
           Manufacturer    |-> IF c.manufacturer_id \in DOMAIN mans
                               THEN mans[c.manufacturer_id] ELSE <<>>,
           Library_Type    |-> LibraryType(c),
           Description     |-> description,
           Datasheet       |-> c.datasheet,
           Price           |-> price_str,
           Stock           |-> IntToStr(c.stock)])
    /\ UNCHANGED <<scanVars, fmVars, runVars, priceInput, entries, unitVars, price_entries,
                   price_entries_cutoff, price_entries_unique, price_str,
                   price_entries_total, price_entries_deleted_total,
                   price_entries_duplicates_deleted_total,
                   c, mans, cats, description, raised>>

\* libType = self.library_type(c); row = {...}; rows.append(row).
\* mans[c["manufacturer_id"]] raises KeyError for an id not in the table.
RowAssemble ==
    /\ pc = "stripped"
    /\ IF c.manufacturer_id \notin DOMAIN mans
       THEN /\ pc' = "raised"
            /\ raised' = "KeyError"
            /\ UNCHANGED rows
       ELSE /\ pc' = "done"
            /\ rows' = Append(rows,
                  [LCSC_Part       |-> <<"C">> \o IntToStr(c.lcsc),
                   First_Category  |-> cats[c.category_id][1],
                   Second_Category |-> cats[c.category_id][2],
                   MFR_Part        |-> c.mfr,
                   Package         |-> c.package,
                   Solder_Joint    |-> c.joints,
                   Manufacturer    |-> mans[c.manufacturer_id],
                   Library_Type    |-> LibraryType(c),
                   Description     |-> description,
                   Datasheet       |-> c.datasheet,
                   Price           |-> price_str,
                   Stock           |-> IntToStr(c.stock)])
            /\ UNCHANGED raised
    /\ UNCHANGED <<scanVars, fmVars, runVars, priceInput, entries, unitVars, price_entries,
                   price_entries_cutoff, price_entries_unique, price_str,
                   price_entries_total, price_entries_deleted_total,
                   price_entries_duplicates_deleted_total,
                   c, mans, cats, description>>

NextRow ==
    \/ LoadParse
    \/ LoadReduce
    \/ LoadCutoff
    \/ LoadUnique
    \/ LoadSerialize
    \/ RowDescription
    \/ RowRohs
    \/ RowCategory
    \/ RowPackage
    \/ RowSpaces
    \/ RowAssemble

SpecRow == InitRow /\ [][NextRow]_vars

\* ------------------------------------------------------------------------
\* A run of Generate.build up to the metadata row
\* ------------------------------------------------------------------------

\* What an output database left by an earlier build holds.
OldOutput ==
    [parts      |-> <<[LCSC_Part |-> <<"C", "9">>, First_Category |-> <<"O", "l", "d">>,
                       Second_Category |-> <<"O", "l", "d">>, MFR_Part |-> <<"M", "0">>,
                       Package |-> <<>>, Solder_Joint |-> 1,
                       Manufacturer |-> <<"A", "c", "m", "e">>,
                       Library_Type |-> <<"B", "a", "s", "i", "c">>,
                       Description |-> <<>>, Datasheet |-> <<"u">>,
                       Price |-> <<>>, Stock |-> <<"0">>]>>,
     categories |-> <<<<<<"O", "l", "d">>, <<"O", "l", "d">>>>>>,
     meta       |-> <<[filename |-> "cache.sqlite3", partcount |-> 1]>>]

\* No output database exists.
NoOutput == [parts |-> <<>>, categories |-> <<>>, meta |-> <<>>]

InitBuild ==
    /\ ScanIdle
    /\ FmIdle
    /\ IsComponents(components)
    /\ obsolete_parts_threshold_days \in {0, 1}
    /\ size \in 1..MaxBatch
    /\ \E o \in {NoOutput, OldOutput} :
          /\ parts = o.parts
          /\ categories = o.categories
          /\ meta = o.meta
    /\ optimized = FALSE
    /\ res = <<>>
    /\ comps = <<>>
    /\ cidx = 0
    /\ part_count = 0
    /\ reads = <<>>
    /\ stats = <<>>
    /\ run = "created"
    /\ priceInput = <<>>
    /\ entries = <<>>
    /\ UnitIdle
    /\ pc = "norow"
    /\ price_entries = <<>>
    /\ price_entries_cutoff = <<>>
    /\ price_entries_unique = <<>>
    /\ price_str = <<>>
    /\ price_entries_total = 0
    /\ price_entries_deleted_total = 0
    /\ price_entries_duplicates_deleted_total = 0
    /\ c = NoRow
    /\ mans = <<>>
    /\ cats = <<>>
    /\ description = <<>>
    /\ rows = <<>>
    /\ raised = ""

BuildBeginKeepingOutput ==
    /\ run = "created"
    /\ run' = "connected"
    /\ UNCHANGED <<scanVars, fmVars, priceInput, entries, unitVars, loadVars, rowVars,
                   components, obsolete_parts_threshold_days, size, res,
                   comps, cidx, part_count, parts, categories, meta,
                   optimized, reads, stats>>

\* remove_original(); connect_sqlite(); create_tables(): the output database
\* is a new file with empty tables.
BuildBegin ==
    /\ run = "created"
    /\ run' = "connected"
    /\ parts' = <<>>
    /\ categories' = <<>>
    /\ meta' = <<>>
    /\ optimized' = FALSE
    /\ UNCHANGED <<scanVars, fmVars, priceInput, entries, unitVars, loadVars, rowVars,
                   components, obsolete_parts_threshold_days, size, res,
                   comps, cidx, part_count, reads, stats>>

\* load_tables up to its while loop: the lookup tables are read, the counters
\* are zeroed, the SELECT over the components is executed.
LoadTablesBegin ==
    /\ run = "connected"
    /\ run' = "fetch"
    /\ mans' = MansTable
    /\ cats' = CatsTable
    /\ price_entries_total' = 0
    /\ price_entries_deleted_total' = 0
    /\ price_entries_duplicates_deleted_total' = 0
    /\ part_count' = 0
    /\ res' = Select(components, obsolete_parts_threshold_days)
    /\ UNCHANGED <<scanVars, fmVars, priceInput, entries, unitVars, pc, price_entries,
                   price_entries_cutoff, price_entries_unique, price_str,
                   c, description, rows, raised,
                   components, obsolete_parts_threshold_days, size,
                   comps, cidx, parts, categories, meta, optimized, reads,
                   stats>>

\* The top of the while loop: comps = res.fetchmany(size), the count is
\* printed; with no row the loop is left, the statistics line is printed and
\* load_tables returns; else part_count grows and rows = [].
Fetch ==
    /\ run = "fetch"
    /\ comps' = FetchMany(res, size)
    /\ res' = AfterFetch(res, size)
    /\ reads' = Append(reads, Len(comps'))
    /\ IF Len(comps') = 0
       THEN /\ run' = "loaded"
            /\ stats' = StatsLine(price_entries_deleted_total,
                                  price_entries_duplicates_deleted_total,
                                  price_entries_total)
            /\ UNCHANGED <<part_count, rows, cidx>>
       ELSE /\ run' = "rows"
            /\ part_count' = part_count + Len(comps')
            /\ rows' = <<>>
            /\ cidx' = 0
            /\ UNCHANGED stats
    /\ UNCHANGED <<scanVars, fmVars, priceInput, entries, unitVars, loadVars,
                   c, mans, cats, description, raised,
                   components, obsolete_parts_threshold_days, size,
                   parts, categories, meta, optimized>>

\* for c in comps: the next row of the batch; priceInput = json.loads(c["price"])
ForComp ==
    /\ run = "rows"
    /\ pc \in {"norow", "done"}
    /\ cidx < Len(comps)
    /\ cidx' = cidx + 1
    /\ c' = comps[cidx + 1]
    /\ priceInput' = comps[cidx + 1].price
    /\ pc' = "idle"
    /\ UNCHANGED <<scanVars, fmVars, entries, unitVars, price_entries, price_entries_cutoff,
                   price_entries_unique, price_str, price_entries_total,
                   price_entries_deleted_total,
                   price_entries_duplicates_deleted_total,
                   mans, cats, description, rows, raised,
                   components, obsolete_parts_threshold_days, size, res,
                   comps, part_count, parts, categories, meta, optimized,
                   reads, stats, run>>

\* After the for loop: executemany(INSERT INTO parts ...) with the rows of
\* the batch, and commit.
Insert ==
    /\ run = "rows"
    /\ pc \in {"norow", "done"}
    /\ cidx = Len(comps)
    /\ parts' = parts \o rows
    /\ run' = "fetch"
    /\ UNCHANGED <<scanVars, fmVars, priceInput, entries, unitVars, loadVars, rowVars,
                   components, obsolete_parts_threshold_days, size, res,
                   comps, cidx, part_count, categories, meta, optimized,
                   reads, stats>>

PopulateCategoriesAlways ==
    /\ run = "loaded" \/ (run = "rows" /\ pc = "raised")
    /\ run' = "categorized"
    /\ categories' = categories \o SelectCategories(parts)
    /\ UNCHANGED <<scanVars, fmVars, priceInput, entries, unitVars, loadVars,
                   rowVars, components, obsolete_parts_threshold_days, size,
                   res, comps, cidx, part_count, parts, meta, optimized,
                   reads, stats>>

\* populate_categories
PopulateCategories ==
    /\ run = "loaded"
    /\ run' = "categorized"
    /\ categories' = categories \o SelectCategories(parts)
    /\ UNCHANGED <<scanVars, fmVars, priceInput, entries, unitVars, loadVars, rowVars,
                   components, obsolete_parts_threshold_days, size, res,
                   comps, cidx, part_count, parts, meta, optimized, reads,
                   stats>>

\* optimize
Optimize ==
    /\ run = "categorized"
    /\ run' = "optimized"
    /\ optimized' = TRUE
    /\ UNCHANGED <<scanVars, fmVars, priceInput, entries, unitVars, loadVars, rowVars,
                   components, obsolete_parts_threshold_days, size, res,
                   comps, cidx, part_count, parts, categories, meta, reads,
                   stats>>

MetaDataLastBatch ==
    /\ run = "optimized"
    /\ run' = "meta"
    /\ meta' = Append(meta, [filename |-> "cache.sqlite3",
                             partcount |-> Len(comps)])
    /\ UNCHANGED <<scanVars, fmVars, priceInput, entries, unitVars, loadVars, rowVars,
                   components, obsolete_parts_threshold_days, size, res,
                   comps, cidx, part_count, parts, categories, optimized,
                   reads, stats>>

\* meta_data: the metadata row (its file size and dates come from the
\* environment and are left out) and the commit.
MetaData ==
    /\ run = "optimized"
    /\ run' = "meta"
    /\ meta' = Append(meta, [filename |-> "cache.sqlite3",
                             partcount |-> part_count])
    /\ UNCHANGED <<scanVars, fmVars, priceInput, entries, unitVars, loadVars, rowVars,
                   components, obsolete_parts_threshold_days, size, res,
                   comps, cidx, part_count, parts, categories, optimized,
                   reads, stats>>

\* close_sqlite(); split(); display_stats(); cleanup() unless skip_cleanup:
\* the compressed output, which fits one chunk here, and the sentinel are
\* written to the current directory; the tables of the output are no longer
\* written to.
BuildEnd ==
    /\ run = "meta"
    /\ run' = "done"
    /\ LET files == GenSplit(<<>>, 1)
       IN  disk' = WriteFile(WriteFiles(disk, CurDir, files), CurDir,
                             SentinelFilename, IntToStr(Len(files)))
    /\ UNCHANGED <<scanVars, priceInput, entries, unitVars, loadVars, rowVars,
                   components, obsolete_parts_threshold_days, size, res,
                   comps, cidx, part_count, parts, categories, meta,
                   optimized, reads, stats, file_exists, zip_chunks, use_temp_dir, temp_dir,
                   tempdirs, remote, calls, ctx, requests, dl, output_dir,
                   download_dir, chunk_count, chunk_index>>

NextBuild ==
    \/ BuildBegin
    \/ LoadTablesBegin
    \/ Fetch
    \/ ForComp
    \/ LoadParse
    \/ LoadReduce
    \/ LoadCutoff
    \/ LoadUnique
    \/ LoadSerialize
    \/ RowDescription
    \/ RowRohs
    \/ RowCategory
    \/ RowPackage
    \/ RowSpaces
    \/ RowAssemble
    \/ Insert
    \/ PopulateCategories
    \/ Optimize
    \/ MetaData
    \/ BuildEnd

SpecBuild == InitBuild /\ [][NextBuild]_vars

\* ------------------------------------------------------------------------
\* Claims about the price normalisation
\* ------------------------------------------------------------------------

\* The j-th smallest element of the set of indices K.
NthOf(K, j) == CHOOSE i \in K : Cardinality({x \in K : x < i}) = j - 1

\* The indices of arg the cutoff filter must keep: the first, and every later
\* one whose price is not below the cutoff.
MustKeep == {i \in 1..Len(arg) : i = 1 \/ ~(arg[i].price_dollars < cutoff)}

RunStarts ==
    {i \in 1..Len(arg) :
        i = 1 \/ arg[i].price_dollars_str # arg[i - 1].price_dollars_str}

\* The last index of the run of equal price strings that starts at i.
RunEnd(i) ==
    CHOOSE e \in i..Len(arg) :
        /\ \A m \in i..e : arg[m].price_dollars_str = arg[i].price_dollars_str
        /\ (e = Len(arg)
            \/ arg[e + 1].price_dollars_str # arg[i].price_dollars_str)

\* C2: filter_duplicate_prices returns one entry per maximal run of
\* consecutive entries with the same price string, in order, with the run's
\* first min_quantity, the run's last max_quantity and the shared price
\* string; equal prices separated by another price stay separate, and a
\* single-entry list is returned unchanged.
C2_FilterDuplicatePrices ==
    op = "filter_duplicate_prices" =>
        /\ Len(ret) = Cardinality(RunStarts)
        /\ \A j \in 1..Len(ret) :
              LET i == NthOf(RunStarts, j)
              IN  /\ ret[j].min_quantity = arg[i].min_quantity
                  /\ ret[j].max_quantity = arg[RunEnd(i)].max_quantity
                  /\ ret[j].price_dollars_str = arg[i].price_dollars_str
        /\ (Len(arg) = 1 => ret = arg)

\* A duplicate call that merged a run of two and kept the entry after it.
C2_Witness ==
    /\ op = "filter_duplicate_prices"
    /\ Len(arg) = 3
    /\ Len(ret) = 2
    /\ arg[1].price_dollars_str = arg[2].price_dollars_str
    /\ arg[1].max_quantity # arg[2].max_quantity
    /\ ret[1].max_quantity = arg[2].max_quantity

\* The string has the shape <digits>.<three digits>.
ThreeDecimals(s) ==
    /\ Len(s) >= 5
    /\ s[Len(s) - 3] = "."
    /\ \A i \in 1..Len(s) : i # Len(s) - 3 => IsDigit(s[i])

InputContiguous ==
    /\ Len(priceInput) > 0
    /\ \A i \in 1..Len(priceInput) :
          priceInput[i].qTo # None => priceInput[i].qTo >= priceInput[i].qFrom
    /\ \A i \in 2..Len(priceInput) :
          /\ priceInput[i - 1].qTo # None
          /\ priceInput[i].qFrom = priceInput[i - 1].qTo + 1

\* The input prices never rise with the quantity (the order the catalog
\* supplies and filter_below_cutoff assumes).
InputPricesDescending ==
    \A i \in 2..Len(priceInput) :
        ParseFloat(priceInput[i].price) <= ParseFloat(priceInput[i - 1].price)

\* The list is sorted by ascending min_quantity with contiguous ranges and an
\* open-ended last entry.
Normalized(l) ==
    /\ Len(l) > 0
    /\ l[Len(l)].max_quantity = None
    /\ \A i \in 2..Len(l) :
          /\ l[i].min_quantity > l[i - 1].min_quantity
          /\ l[i - 1].max_quantity # None
          /\ l[i].min_quantity = l[i - 1].max_quantity + 1

\* C4 as stated: for every non-empty contiguous ascending input, the fully
\* normalised list is ascending, contiguous and ends open-ended.
C4_Original ==
    (pc \in {"unique", "serialized"} /\ InputContiguous)
        => Normalized(price_entries_unique)

\* C4 as amended: the same, for inputs whose prices do not rise with the
\* quantity.
C4_NormalizedContiguous ==
    (pc \in {"unique", "serialized"} /\ InputContiguous
        /\ InputPricesDescending)
        => Normalized(price_entries_unique)

\* A contiguous descending input of three tiers that lost an entry to the
\* cutoff and one to the merge of duplicates.
C4_Witness ==
    /\ pc = "unique"
    /\ InputContiguous
    /\ InputPricesDescending
    /\ Len(priceInput) = 3
    /\ priceInput[3].qTo # None
    /\ Len(price_entries_cutoff) = 2
    /\ Len(price_entries_unique) = 1

\* The characters of s before the first ch, and after it.
Before(s, ch) == SubSeq(s, 1, IndexOf(s, ch) - 1)

After(s, ch) == SubSeq(s, IndexOf(s, ch) + 1, Len(s))

RECURSIVE SplitOn(_, _)
\* s.split(c), with no part for the empty string.
SplitOn(s, ch) ==
    IF Len(s) = 0 THEN <<>>
    ELSE IF IndexOf(s, ch) = 0 THEN <<s>>
    ELSE <<Before(s, ch)>> \o SplitOn(After(s, ch), ch)

\* One "<min>-<max or empty>:<price>" token read back.
ParseToken(t) ==
    LET range == Before(t, ":")
        hi    == After(range, "-")
    IN  <<StrToInt(Before(range, "-")),
          IF Len(hi) = 0 THEN None ELSE StrToInt(hi),
          After(t, ":")>>

\* The stored price string read back as the list of
\* (min_quantity, max_quantity or None, price string).
ParsePriceStr(s) ==
    LET tokens == SplitOn(s, ",")
    IN  [i \in 1..Len(tokens) |-> ParseToken(tokens[i])]

\* C5: the stored price string is the comma-joined sequence of
\* "<min>-<max or empty>:<price string>" tokens of the normalised list and
\* reads back as the same sequence of (min_quantity, max_quantity or
\* open-ended, price string).
C5_PriceStrRoundTrip ==
    pc = "serialized" =>
        /\ ParsePriceStr(price_str) =
              [i \in 1..Len(price_entries_unique) |->
                  <<price_entries_unique[i].min_quantity,
                    price_entries_unique[i].max_quantity,
                    price_entries_unique[i].price_dollars_str>>]
        /\ Len(SplitOn(price_str, ",")) = Len(price_entries_unique)

\* A stored price string of two tokens, the first bounded and the last
\* open-ended.
C5_Witness ==
    /\ pc = "serialized"
    /\ Len(price_entries_unique) = 2
    /\ price_entries_unique[1].max_quantity # None
    /\ price_entries_unique[2].max_quantity = None
    /\ Len(price_str) > 0

\* ------------------------------------------------------------------------
\* Claims about the translation of a row
\* ------------------------------------------------------------------------

\* C6: the library tier of a translated row is exactly one of Basic,
\* Preferred, Extended: Basic whenever the basic flag is set (also when
\* preferred is set too), Preferred when only the preferred flag is set, and
\* Extended when neither is set.
C6_LibraryTier ==
    pc = "done" =>
        LET tier == rows[Len(rows)].Library_Type
        IN  /\ tier \in {<<"B", "a", "s", "i", "c">>, <<"P", "r", "e", "f", "e", "r", "r", "e", "d">>, <<"E", "x", "t", "e", "n", "d", "e", "d">>}
            /\ (c.basic = 1 => tier = <<"B", "a", "s", "i", "c">>)
            /\ (c.basic = 0 /\ c.preferred = 1 => tier = <<"P", "r", "e", "f", "e", "r", "r", "e", "d">>)
            /\ (c.basic = 0 /\ c.preferred = 0 => tier = <<"E", "x", "t", "e", "n", "d", "e", "d">>)

\* A translated row with both flags set.
C6_Witness ==
    /\ pc = "done"
    /\ c.basic = 1
    /\ c.preferred = 1
    /\ rows[Len(rows)].Library_Type = <<"B", "a", "s", "i", "c">>

\* The extra column decodes (it is neither NULL nor malformed).
ExtraDecodes == c.extra.kind \in {"object", "array", "number"}

\* The extra column decodes to a dict that holds the key.
ExtraHas(key) == c.extra.kind = "object" /\ key \in DOMAIN c.extra.obj

\* C7: when the metadata payload decodes, the description used for the row
\* is the payload's "description" if present, otherwise the payload's
\* "describe" if present, and the raw description only when the payload has
\* neither key.
C7_DescriptionPriority ==
    (pc = "described" /\ ExtraDecodes) =>
        description =
            (IF ExtraHas("description") THEN c.extra.obj["description"]
             ELSE IF ExtraHas("describe") THEN c.extra.obj["describe"]
             ELSE c.description)

\* The description the cleanup steps make of the text d for the row c.
CleanedFrom(d) ==
    Strip(Replace(Replace(RohsStep(d), cats[c.category_id][2], <<>>),
                  c.package, <<>>))

\* C8: translating a row whose metadata payload is malformed or absent never
\* raises on that account (only a missing lookup key can end the row), and
\* the row is translated with its raw description, as with no payload.
C8_MalformedExtraIgnored ==
    c.extra.kind \in {"NULL", "malformed"} =>
        /\ raised \in {"", "KeyError"}
        /\ (pc = "raised" =>
               \/ c.category_id \notin DOMAIN cats
               \/ c.manufacturer_id \notin DOMAIN mans)
        /\ (pc = "described" => description = c.description)
        /\ (pc = "done" =>
               rows[Len(rows)].Description = CleanedFrom(c.description))

\* A row with a malformed payload that was translated to the end.
C8_Witness ==
    /\ c.extra.kind = "malformed"
    /\ pc = "done"
    /\ Len(rows) = 1
    /\ raised = ""

\* C9: a description that contains the compliance token in any letter case
\* comes out of the ROHS step without the token in any letter case and with
\* no marker appended; one that does not contain it gets the marker
\* " not ROHS" appended.
C9_RohsCleanup ==
    pc = "rohs" =>
        LET before == ResolveDescription(c).description
        IN  IF Contains(Lower(before), <<" ", "r", "o", "h", "s">>)
            THEN ~Contains(Lower(description), <<" ", "r", "o", "h", "s">>)
            ELSE description = before \o <<" ", "n", "o", "t", " ", "R", "O", "H", "S">>

\* C10: the description of a translated row has no run of two or more
\* whitespace characters and no leading or trailing whitespace.
C10_NoWhitespaceRuns ==
    pc = "done" =>
        LET d == rows[Len(rows)].Description
        IN  /\ \A i \in 1..(Len(d) - 1) : ~(IsSpace(d[i]) /\ IsSpace(d[i + 1]))
            /\ (Len(d) > 0 => ~IsSpace(d[1]) /\ ~IsSpace(d[Len(d)]))

\* ------------------------------------------------------------------------
\* Claims about the cleaned description
\* ------------------------------------------------------------------------

\* The row's steps and the cleanup as one function agree.
CleanupIsTheSteps ==
    pc \in {"stripped", "done"} =>
        description = Cleanup(ResolveDescription(c).description,
                              cats[c.category_id][2], c.package)

\* C11: the cleanup is idempotent: applied to a cleaned description, with the
\* same second category and package, it returns that description unchanged.
C11_CleanupIdempotent ==
    pc \in {"stripped", "done"} =>
        Cleanup(description, cats[c.category_id][2], c.package) = description

\* C12: for a row with a non-empty second category and a non-empty package,
\* the cleaned description contains neither of them.
C12_NoCategoryNoPackage ==
    (/\ pc \in {"stripped", "done"}
     /\ cats[c.category_id][2] # <<>>
     /\ c.package # <<>>) =>
        /\ ~Contains(description, cats[c.category_id][2])
        /\ ~Contains(description, c.package)

\* ------------------------------------------------------------------------
\* Claims about the run
\* ------------------------------------------------------------------------

\* The rows of the components table the filter of the run matches.
Matched == Select(components, obsolete_parts_threshold_days)

\* load_tables has returned.
Loaded == run \in {"loaded", "categorized", "optimized", "meta", "done"}

\* The run has ended with the exception of a row.
Failed == run = "rows" /\ pc = "raised"

\* The identifier column of the part row of a component.
PartId(row) == <<"C">> \o IntToStr(row.lcsc)

\* A row whose category id or manufacturer id is in no lookup table.
MissingLookup(row) ==
    \/ row.category_id \notin DOMAIN CatsTable
    \/ row.manufacturer_id \notin DOMAIN MansTable

\* The index of the first matched row with a missing lookup, or 0.
FirstMissing ==
    IF \E i \in 1..Len(Matched) : MissingLookup(Matched[i])
    THEN CHOOSE i \in 1..Len(Matched) :
            /\ MissingLookup(Matched[i])
            /\ \A j \in 1..(i - 1) : ~MissingLookup(Matched[j])
    ELSE 0

\* C13: a row with a category id or manufacturer id that is in no lookup
\* table ends the run at that row with KeyError: load_tables never returns,
\* no part row carries that row's identifier, the parts table holds exactly
\* the rows of the whole batches before the row's batch, and no batch after
\* the row's has been fetched.
C13_MissingLookupFails ==
    LET b == FirstMissing
        before == IF b = 0 THEN 0 ELSE ((b - 1) \div size) * size
    IN  /\ Loaded => b = 0
        /\ (b # 0 /\ run # "created") =>
             /\ Len(parts) <= before
             /\ Len(reads) <= ((b - 1) \div size) + 1
             /\ \A i \in 1..Len(parts) : parts[i].LCSC_Part # PartId(Matched[b])
             /\ \A i \in 1..Len(rows) : rows[i].LCSC_Part # PartId(Matched[b])
        /\ Failed =>
             /\ b # 0
             /\ raised = "KeyError"
             /\ c = Matched[b]
             /\ Len(parts) = before
             /\ \A i \in 1..before : parts[i].LCSC_Part = PartId(Matched[i])
             /\ Len(reads) = ((b - 1) \div size) + 1

\* A run that failed at a row whose manufacturer is unknown, after a batch
\* had been inserted.
C13_Witness ==
    /\ Failed
    /\ c.manufacturer_id \notin DOMAIN mans
    /\ Len(parts) > 0

\* The normalised price list of a component, as one function of its payload.
NormalizedPrices(row) ==
    FilterDuplicatePrices(
        FilterBelowCutoff(ReducePrecision(PriceInit(row.price)),
                          CutoffPriceDollars))

\* The part row of a component, as one function of the component.
TranslateRow(row) ==
    [LCSC_Part       |-> PartId(row),
     First_Category  |-> CatsTable[row.category_id][1],
     Second_Category |-> CatsTable[row.category_id][2],
     MFR_Part        |-> row.mfr,
     Package         |-> row.package,
     Solder_Joint    |-> row.joints,
     Manufacturer    |-> MansTable[row.manufacturer_id],
     Library_Type    |-> LibraryType(row),
     Description     |-> Cleanup(ResolveDescription(row).description,
                                 CatsTable[row.category_id][2], row.package),
     Datasheet       |-> row.datasheet,
     Price           |-> PriceStr(NormalizedPrices(row)),
     Stock           |-> IntToStr(row.stock)]

RECURSIVE SumOver(_, _)
\* The sum of F(table[i]) over the rows of the table.
SumOver(F(_), table) ==
    IF Len(table) = 0 THEN 0 ELSE F(Head(table)) + SumOver(F, Tail(table))

\* Price entries of a component: parsed, removed in all, removed as duplicates.
EntriesSeen(row) == Len(row.price)

EntriesRemoved(row) == Len(row.price) - Len(NormalizedPrices(row))

DuplicatesRemoved(row) ==
    Len(FilterBelowCutoff(ReducePrecision(PriceInit(row.price)),
                          CutoffPriceDollars))
    - Len(NormalizedPrices(row))

\* C14: the output of a completed run is a function of the components table,
\* the filter and the lookup tables alone, so runs with any two fetch sizes
\* end with the same part rows in the same order, the same category rows and
\* the same statistics.
C14_BatchSizeIndependent ==
    run = "meta" =>
        LET translated == [i \in 1..Len(Matched) |-> TranslateRow(Matched[i])]
        IN  /\ parts = translated
            /\ categories = OrderBy(DistinctPairs(translated))
            /\ stats = StatsLine(SumOver(EntriesRemoved, Matched),
                                 SumOver(DuplicatesRemoved, Matched),
                                 SumOver(EntriesSeen, Matched))

\* A completed run of several batches of which the last was not full.
C14_Witness ==
    /\ run = "meta"
    /\ size < Len(Matched)
    /\ Len(Matched) % size # 0
    /\ Len(categories) > 1

\* C15: a completed run over N matched rows with fetch size B has read
\* ceil(N / B) batches that were not empty, all of B rows except the last,
\* which has the rows that were left, and then one empty batch; part_count
\* is N.
C15_BatchCount ==
    Loaded =>
        LET N == Len(Matched)
            k == (N + size - 1) \div size
        IN  /\ Len(reads) = k + 1
            /\ reads[k + 1] = 0
            /\ \A i \in 1..k :
                  reads[i] = IF i < k THEN size ELSE N - size * (k - 1)
            /\ \A i \in 1..k : reads[i] >= 1
            /\ part_count = N

\* A completed run of three rows read in batches of two and one.
C15_Witness ==
    /\ Loaded
    /\ Len(Matched) = 3
    /\ size = 2
    /\ reads = <<2, 1, 0>>
    /\ part_count = 3

\* After a completed run the parts table holds the part rows of the matched
\* components, one each, in the order of the components table.
OneRowPerComponent ==
    run = "meta" =>
        /\ Len(parts) = Len(Matched)
        /\ \A i \in 1..Len(Matched) : parts[i].LCSC_Part = PartId(Matched[i])

\* No two rows of the parts table of the run are rows of one component.
NoRowTwice ==
    run # "created" =>
        \A i, j \in 1..Len(parts) :
            parts[i].LCSC_Part = parts[j].LCSC_Part => i = j

\* A step of the run leaves every row of the parts table where and as it is.
RowsKept ==
    run # "created" =>
        /\ Len(parts') >= Len(parts)
        /\ \A i \in 1..Len(parts) : parts'[i] = parts[i]

Categorized == run \in {"categorized", "optimized", "meta", "done"}

\* The category pair of a part row.
PairOf(row) == <<row.First_Category, row.Second_Category>>

\* C17: after populate_categories the categories table holds the pair of
\* every part row exactly once and no pair that no part row has, so it has as
\* many rows as there are distinct pairs among the part rows.
C17_CategoryIndex ==
    Categorized =>
        /\ \A i \in 1..Len(parts) :
              Cardinality({ j \in 1..Len(categories) :
                              categories[j] = PairOf(parts[i]) }) = 1
        /\ \A j \in 1..Len(categories) :
              \E i \in 1..Len(parts) : categories[j] = PairOf(parts[i])
        /\ Len(categories) = Cardinality({ PairOf(parts[i]) : i \in 1..Len(parts) })

\* The categories of three part rows of which two have one pair.
C17_Witness ==
    /\ Categorized
    /\ Len(parts) = 3
    /\ Len(categories) = 2
    /\ PairOf(parts[1]) = PairOf(parts[3])

\* a <= b when case is ignored.
CaselessLessEq(a, b) == Lower(a) = Lower(b) \/ TextLess(Lower(a), Lower(b))

\* C18: the rows of the categories table are in ascending order of the first
\* category with case ignored, and rows whose first categories are equal
\* with case ignored are in ascending order of the second category with case
\* ignored.
C18_CategoryOrder ==
    Categorized =>
        \A j, k \in 1..Len(categories) :
            j < k =>
                /\ CaselessLessEq(categories[j][1], categories[k][1])
                /\ Lower(categories[j][1]) = Lower(categories[k][1]) =>
                      CaselessLessEq(categories[j][2], categories[k][2])

\* Three categories of which the one written in lower case is first, though
\* its code is the highest.
C18_Witness ==
    /\ Categorized
    /\ Len(categories) = 3
    /\ categories[1][1] = <<"o", "p", "t", "o">>
    /\ categories[2][1] = <<"O", "p", "t", "o">>
    /\ TextLess(categories[3][1], categories[1][1])

\* ------------------------------------------------------------------------
\* Claims about rows and runs with nothing to do
\* ------------------------------------------------------------------------

\* C19: for a row whose price payload is the empty list, each of the three
\* stages returns the empty list, the stored price string is empty, and the
\* translation raises nothing on account of the price (what it raises comes
\* from a lookup or from an override that is not text).
C19_EmptyPriceList ==
    priceInput = <<>> =>
        /\ pc = "parsed" => entries = <<>>
        /\ pc = "reduced" => price_entries = <<>>
        /\ pc = "cutoff" => price_entries_cutoff = <<>> /\ price_entries = <<>>
        /\ pc = "unique" => price_entries_unique = <<>> /\ price_entries = <<>>
        /\ pc \in {"serialized", "described", "rohs", "category", "package",
                   "stripped", "done", "raised"} => price_str = <<>>
        /\ pc = "done" => rows[Len(rows)].Price = <<>>
        /\ pc = "raised" =>
              \/ c.category_id \notin DOMAIN cats
              \/ c.manufacturer_id \notin DOMAIN mans
              \/ description = JsonNull
        /\ price_entries_total = 0
        /\ price_entries_deleted_total = 0
        /\ price_entries_duplicates_deleted_total = 0

\* A row without prices was translated to a part row with an empty price.
C19_Witness ==
    /\ priceInput = <<>>
    /\ pc = "done"
    /\ Len(rows) = 1
    /\ rows[1].Price = <<>>

\* C20: a run whose filter matches no component raises nothing and ends with
\* no part row and no category row; load_tables still prints its statistics
\* line, with counts of 0 and the percentage 0.00.
C20_NoComponents ==
    Len(Matched) = 0 =>
        /\ ~Failed
        /\ run # "created" => parts = <<>>
        /\ Loaded =>
              /\ reads = <<0>>
              /\ part_count = 0
              /\ stats = <<[deleted |-> 0, duplicates |-> 0, total |-> 0,
                            percent |-> <<"0", ".", "0", "0">>]>>
        /\ Categorized => categories = <<>>
        /\ run = "meta" =>
              meta = <<[filename |-> "cache.sqlite3", partcount |-> 0]>>

\* A completed run over a components table whose rows the filter all left out.
C20_Witness ==
    /\ run = "meta"
    /\ Len(components) > 0
    /\ Len(Matched) = 0
    /\ stats # <<>>

\* ------------------------------------------------------------------------
\* Price.filter_duplicate_prices, step by step
\* ------------------------------------------------------------------------

\* The call of filter_duplicate_prices on a parsed and rounded price list
InitScan ==
    /\ priceInput = <<>>
    /\ \E n \in 0..MaxLen : \E tiers \in [1..n -> TierChoices] :
          entries = ReducePrecision(PriceInit(Payload(tiers)))
    /\ cutoff = CutoffPriceDollars
    /\ op = "filter_duplicate_prices"
    /\ arg = entries
    /\ ret = <<>>
    /\ pc = "call"
    /\ price_entries = <<>>
    /\ price_entries_cutoff = <<>>
    /\ price_entries_unique = <<>>
    /\ price_str = <<>>
    /\ price_entries_total = 0
    /\ price_entries_deleted_total = 0
    /\ price_entries_duplicates_deleted_total = 0
    /\ c = NoRow
    /\ RowIdle
    /\ RunIdle
    /\ ScanIdle
    /\ FmIdle

\* Up to the while loop; a list of one entry or none is returned as it is.
ScanBegin ==
    /\ pc = "call"
    /\ IF Len(entries) > 1
       THEN /\ first' = 0
            /\ second' = 1
            /\ pending' = <<>>
            /\ price_entries_unique' = <<>>
            /\ pc' = "loop"
            /\ UNCHANGED ret
       ELSE /\ price_entries_unique' = entries
            /\ ret' = entries
            /\ pc' = "return"
            /\ UNCHANGED <<first, second, pending>>
    /\ UNCHANGED <<priceInput, entries, cutoff, op, arg, price_entries,
                   price_entries_cutoff, price_str, price_entries_total,
                   price_entries_deleted_total,
                   price_entries_duplicates_deleted_total, rowVars, runVars,
                   fmVars>>

ScanStepSecondFirst ==
    /\ pc = "loop"
    /\ IF pending = <<>> /\ first >= Len(entries)
       THEN /\ pc' = "IndexError"
            /\ UNCHANGED <<first, second, pending, price_entries_unique>>
       ELSE LET f == IF pending = <<>> THEN entries[first + 1]
                     ELSE pending[1]
            IN  IF second >= Len(entries)
                THEN /\ pending' = <<f>>
                     /\ pc' = "append"
                     /\ UNCHANGED <<first, second, price_entries_unique>>
                ELSE IF f.price_dollars_str
                            = entries[second + 1].price_dollars_str
                THEN /\ pending' = <<[f EXCEPT !.max_quantity =
                                         entries[second + 1].max_quantity]>>
                     /\ second' = second + 1
                     /\ UNCHANGED <<first, price_entries_unique, pc>>
                ELSE /\ price_entries_unique' = Append(price_entries_unique, f)
                     /\ second' = first + 1
                     /\ first' = second
                     /\ pending' = <<>>
                     /\ UNCHANGED pc
    /\ UNCHANGED <<priceInput, entries, unitVars, price_entries,
                   price_entries_cutoff, price_str, price_entries_total,
                   price_entries_deleted_total,
                   price_entries_duplicates_deleted_total, rowVars, runVars,
                   fmVars>>

\* One turn of the while loop: the copy of entries[first] when f is None,
\* the test that ends the loop, the merge or the append.
ScanStep ==
    /\ pc = "loop"
    /\ IF pending = <<>> /\ first >= Len(entries)
       THEN /\ pc' = "IndexError"
            /\ UNCHANGED <<first, second, pending, price_entries_unique>>
       ELSE LET f == IF pending = <<>> THEN entries[first + 1]
                     ELSE pending[1]
            IN  IF second >= Len(entries)
                THEN /\ pending' = <<f>>
                     /\ pc' = "append"
                     /\ UNCHANGED <<first, second, price_entries_unique>>
                ELSE IF f.price_dollars_str
                            = entries[second + 1].price_dollars_str
                THEN /\ pending' = <<[f EXCEPT !.max_quantity =
                                         entries[second + 1].max_quantity]>>
                     /\ second' = second + 1
                     /\ UNCHANGED <<first, price_entries_unique, pc>>
                ELSE /\ price_entries_unique' = Append(price_entries_unique, f)
                     /\ first' = second
                     /\ second' = first' + 1
                     /\ pending' = <<>>
                     /\ UNCHANGED pc
    /\ UNCHANGED <<priceInput, entries, unitVars, price_entries,
                   price_entries_cutoff, price_str, price_entries_total,
                   price_entries_deleted_total,
                   price_entries_duplicates_deleted_total, rowVars, runVars,
                   fmVars>>

\* After the loop: price_entries_unique.append(f), and the return
ScanEnd ==
    /\ pc = "append"
    /\ price_entries_unique' = price_entries_unique \o pending
    /\ ret' = price_entries_unique'
    /\ pc' = "return"
    /\ UNCHANGED <<priceInput, entries, cutoff, op, arg, price_entries,
                   price_entries_cutoff, price_str, price_entries_total,
                   price_entries_deleted_total,
                   price_entries_duplicates_deleted_total, rowVars, runVars,
                   scanVars, fmVars>>

NextScan ==
    \/ ScanBegin
    \/ ScanStep
    \/ ScanEnd

SpecScan == InitScan /\ [][NextScan]_vars

\* The call is not suspended: a step that can be taken is taken.
SpecScanFair == SpecScan /\ WF_vars(NextScan)

\* ------------------------------------------------------------------------
\* Claims about the metadata, the order of the steps and the statistics
\* ------------------------------------------------------------------------

\* C21: the part count of the metadata row is the number of rows the parts
\* table holds when the row is written, and in a completed run that is the
\* number of components the filter matches; a run writes one metadata row.
C21_MetadataRowCount ==
    /\ run \in {"meta", "done"} =>
          /\ Len(meta) = 1
          /\ meta[1].partcount = Len(parts)
          /\ meta[1].partcount = Len(Matched)
    /\ run \in {"connected", "fetch", "rows", "loaded", "categorized",
                "optimized"} => meta = <<>>

\* The metadata of a completed run of three batches of one row.
C21_Witness ==
    /\ run = "meta"
    /\ size = 1
    /\ meta[1].partcount = 3

\* ------------------------------------------------------------------------
\* FileManager (filemgr.py): work directory, split, download_from_github
\* ------------------------------------------------------------------------

\* The state after FileManager.__init__
InitFileManager ==
    /\ file_exists \in BOOLEAN
    /\ zip_chunks \in 1..MaxChunks
    /\ use_temp_dir \in BOOLEAN
    /\ temp_dir = None
    /\ tempdirs = {}
    /\ disk = {}
    /\ remote \in Remotes
    /\ calls = <<>>
    /\ ctx = "out"
    /\ requests = <<>>
    /\ dl = "idle"
    /\ output_dir = CurDir
    /\ download_dir = CurDir
    /\ chunk_count = 0
    /\ chunk_index = 0
    /\ priceInput = <<>>
    /\ entries = <<>>
    /\ UnitIdle
    /\ LoadIdle
    /\ c = NoRow
    /\ RowIdle
    /\ RunIdle
    /\ ScanIdle

GetWorkDirAlwaysNew(work_dir) ==
    /\ work_dir \in (IF use_temp_dir THEN TempNames \ tempdirs ELSE {CurDir})
    /\ temp_dir' = IF use_temp_dir THEN work_dir ELSE temp_dir
    /\ tempdirs' = IF use_temp_dir THEN tempdirs \cup {work_dir} ELSE tempdirs

\* _get_work_dir returns work_dir
GetWorkDirReturning(work_dir) ==
    /\ work_dir \in (IF use_temp_dir
                     THEN IF temp_dir = None THEN TempNames \ tempdirs
                          ELSE {temp_dir}
                     ELSE {CurDir})
    /\ temp_dir' = IF use_temp_dir THEN work_dir ELSE temp_dir
    /\ tempdirs' = IF use_temp_dir THEN tempdirs \cup {work_dir} ELSE tempdirs

\* The state a call of cleanup_temp_dir leaves: the directory and the files
\* in it are removed and the field is reset, when the directory exists.
CleanedUp ==
    IF temp_dir # None /\ temp_dir \in tempdirs
    THEN /\ tempdirs' = tempdirs \ {temp_dir}
         /\ disk' = {file \in disk : file.dir # temp_dir}
         /\ temp_dir' = None
    ELSE UNCHANGED <<tempdirs, disk, temp_dir>>

\* A call of _get_work_dir from outside
GetWorkDir ==
    /\ dl = "idle"
    /\ Len(calls) < MaxCalls
    /\ \E work_dir \in TempNames \cup {CurDir} :
          /\ GetWorkDirReturning(work_dir)
          /\ calls' = Append(calls, [op |-> "_get_work_dir", ret |-> work_dir,
                                     exc |-> "", raised |-> ""])
    /\ UNCHANGED <<priceInput, entries, unitVars, loadVars, rowVars, runVars,
                   scanVars, file_exists, zip_chunks, use_temp_dir, disk,
                   remote, ctx, requests, dl, output_dir, download_dir,
                   chunk_count, chunk_index>>

CleanupTempDirKeepingField ==
    /\ dl = "idle"
    /\ Len(calls) < MaxCalls
    /\ IF temp_dir # None /\ temp_dir \in tempdirs
       THEN /\ tempdirs' = tempdirs \ {temp_dir}
            /\ disk' = {file \in disk : file.dir # temp_dir}
       ELSE UNCHANGED <<tempdirs, disk>>
    /\ calls' = Append(calls, [op |-> "cleanup_temp_dir", ret |-> None,
                               exc |-> "", raised |-> ""])
    /\ UNCHANGED <<priceInput, entries, unitVars, loadVars, rowVars, runVars,
                   scanVars, file_exists, zip_chunks, use_temp_dir, temp_dir,
                   remote, ctx, requests, dl, output_dir, download_dir,
                   chunk_count, chunk_index>>

\* A call of cleanup_temp_dir
CleanupTempDir ==
    /\ dl = "idle"
    /\ Len(calls) < MaxCalls
    /\ CleanedUp
    /\ calls' = Append(calls, [op |-> "cleanup_temp_dir", ret |-> None,
                               exc |-> "", raised |-> ""])
    /\ UNCHANGED <<priceInput, entries, unitVars, loadVars, rowVars, runVars,
                   scanVars, file_exists, zip_chunks, use_temp_dir, remote,
                   ctx, requests, dl, output_dir, download_dir, chunk_count,
                   chunk_index>>

\* __enter__, entering a with statement over the FileManager
Enter ==
    /\ dl = "idle"
    /\ Len(calls) < MaxCalls
    /\ ctx = "out"
    /\ ctx' = "in"
    /\ calls' = Append(calls, [op |-> "__enter__", ret |-> None,
                               exc |-> "", raised |-> ""])
    /\ UNCHANGED <<priceInput, entries, unitVars, loadVars, rowVars, runVars,
                   scanVars, file_exists, zip_chunks, use_temp_dir, temp_dir,
                   tempdirs, disk, remote, requests, dl, output_dir,
                   download_dir, chunk_count, chunk_index>>

\* __exit__, leaving the with statement, normally or by the exception exc of
\* its body: the exception goes on when __exit__ returns a false value.  A
\* with statement that was entered is always left.
Exit ==
    /\ dl = "idle"
    /\ ctx = "in"
    /\ ctx' = "out"
    /\ CleanedUp
    /\ \E exc \in {"", "RuntimeError"} :
          LET suppress == FALSE
          IN  calls' = Append(calls, [op |-> "__exit__", ret |-> None,
                                      exc |-> exc,
                                      raised |-> IF suppress THEN ""
                                                 ELSE exc])
    /\ UNCHANGED <<priceInput, entries, unitVars, loadVars, rowVars, runVars,
                   scanVars, file_exists, zip_chunks, use_temp_dir, remote,
                   requests, dl, output_dir, download_dir, chunk_count,
                   chunk_index>>

\* FileManager.split
Split ==
    /\ dl = "idle"
    /\ Len(calls) < MaxCalls
    /\ IF ~file_exists
       THEN /\ calls' = Append(calls, [op |-> "split", ret |-> None,
                                       exc |-> "",
                                       raised |-> "FileNotFoundError"])
            /\ UNCHANGED <<temp_dir, tempdirs, disk>>
       ELSE \E work_dir \in TempNames \cup {CurDir} :
               LET files == GenSplit(<<>>, zip_chunks)
               IN  /\ GetWorkDirReturning(work_dir)
                   /\ disk' = WriteFile(WriteFiles(disk, work_dir, files),
                                        work_dir, SentinelFilename,
                                        IntToStr(Len(files)))
                   /\ calls' = calls \o
                          <<[op |-> "_get_work_dir", ret |-> work_dir,
                             exc |-> "", raised |-> ""],
                            [op |-> "split", ret |-> Len(files),
                             exc |-> "", raised |-> ""]>>
    /\ UNCHANGED <<priceInput, entries, unitVars, loadVars, rowVars, runVars,
                   scanVars, file_exists, zip_chunks, use_temp_dir, remote,
                   ctx, requests, dl, output_dir, download_dir, chunk_count,
                   chunk_index>>

\* download_from_github, up to the request for the sentinel
DownloadBegin ==
    /\ dl = "idle"
    /\ Len(calls) < MaxCalls
    /\ requests = <<>>
    /\ \E dir \in {CurDir, OutDir} :
          /\ output_dir' = dir
          /\ IF use_temp_dir
             THEN \E work_dir \in TempNames :
                     /\ GetWorkDirReturning(work_dir)
                     /\ download_dir' = work_dir
                     /\ calls' = Append(calls, [op |-> "_get_work_dir",
                                                ret |-> work_dir,
                                                exc |-> "", raised |-> ""])
             ELSE /\ download_dir' = dir
                  /\ UNCHANGED <<temp_dir, tempdirs, calls>>
    /\ dl' = "sentinel"
    /\ UNCHANGED <<priceInput, entries, unitVars, loadVars, rowVars, runVars,
                   scanVars, file_exists, zip_chunks, use_temp_dir, disk,
                   remote, ctx, requests, chunk_count, chunk_index>>

\* The request for the sentinel: a file the url does not serve cannot be
\* fetched, and any request can fail.
FetchSentinel ==
    /\ dl = "sentinel"
    /\ \E ok \in BOOLEAN :
          /\ ok => remote.present
          /\ requests' = Append(requests, [name |-> SentinelFilename,
                                           ok |-> ok])
          /\ IF ok
             THEN /\ disk' = WriteFile(disk, download_dir, SentinelFilename,
                                       remote.sentinel)
                  /\ dl' = "parse"
                  /\ UNCHANGED calls
             ELSE /\ dl' = "FileNotFoundError"
                  /\ calls' = Append(calls, [op |-> "download_from_github",
                                             ret |-> None, exc |-> "",
                                             raised |-> "FileNotFoundError"])
                  /\ UNCHANGED disk
    /\ UNCHANGED <<priceInput, entries, unitVars, loadVars, rowVars, runVars,
                   scanVars, file_exists, zip_chunks, use_temp_dir, temp_dir,
                   tempdirs, remote, ctx, output_dir, download_dir,
                   chunk_count, chunk_index>>

\* The local sentinel is read back and parsed.
ParseSentinel ==
    /\ dl = "parse"
    /\ LET local  == CHOOSE file \in disk : /\ file.dir = download_dir
                                            /\ file.name = SentinelFilename
           parsed == ParseInt(Strip(local.text))
       IN  IF parsed.ok
           THEN /\ chunk_count' = parsed.value
                /\ chunk_index' = 1
                /\ dl' = "chunks"
                /\ UNCHANGED calls
           ELSE /\ dl' = "ValueError"
                /\ calls' = Append(calls, [op |-> "download_from_github",
                                           ret |-> None, exc |-> "",
                                           raised |-> "ValueError"])
                /\ UNCHANGED <<chunk_count, chunk_index>>
    /\ UNCHANGED <<priceInput, entries, unitVars, loadVars, rowVars, runVars,
                   scanVars, file_exists, zip_chunks, use_temp_dir, temp_dir,
                   tempdirs, disk, remote, ctx, requests, output_dir,
                   download_dir>>

RequestChunkGoingOn ==
    /\ dl = "chunks"
    /\ chunk_index <= chunk_count
    /\ \E ok \in BOOLEAN :
          /\ ok => ChunkFilename(chunk_index) \in remote.chunks
          /\ requests' = Append(requests,
                                [name |-> ChunkFilename(chunk_index),
                                 ok |-> ok])
          /\ disk' = IF ok
                     THEN WriteFile(disk, download_dir,
                                    ChunkFilename(chunk_index), <<>>)
                     ELSE disk
          /\ chunk_index' = chunk_index + 1
          /\ UNCHANGED <<dl, calls>>
    /\ UNCHANGED <<priceInput, entries, unitVars, loadVars, rowVars, runVars,
                   scanVars, file_exists, zip_chunks, use_temp_dir, temp_dir,
                   tempdirs, remote, ctx, output_dir, download_dir,
                   chunk_count>>

\* One turn of the loop over range(1, chunk_count + 1)
RequestChunk ==
    /\ dl = "chunks"
    /\ chunk_index <= chunk_count
    /\ \E ok \in BOOLEAN :
          /\ ok => ChunkFilename(chunk_index) \in remote.chunks
          /\ requests' = Append(requests,
                                [name |-> ChunkFilename(chunk_index),
                                 ok |-> ok])
          /\ IF ok
             THEN /\ disk' = WriteFile(disk, download_dir,
                                       ChunkFilename(chunk_index), <<>>)
                  /\ chunk_index' = chunk_index + 1
                  /\ UNCHANGED <<dl, calls>>
             ELSE /\ dl' = "OSError"
                  /\ calls' = Append(calls, [op |-> "download_from_github",
                                             ret |-> None, exc |-> "",
                                             raised |-> "OSError"])
                  /\ UNCHANGED <<disk, chunk_index>>
    /\ UNCHANGED <<priceInput, entries, unitVars, loadVars, rowVars, runVars,
                   scanVars, file_exists, zip_chunks, use_temp_dir, temp_dir,
                   tempdirs, remote, ctx, output_dir, download_dir,
                   chunk_count>>

\* After the loop: the files of the temporary directory whose names begin
\* with the compressed name are copied to output_dir, which is returned.
DownloadEnd ==
    /\ dl = "chunks"
    /\ chunk_index > chunk_count
    /\ dl' = "returned"
    /\ disk' = IF use_temp_dir /\ download_dir # output_dir
               THEN disk \cup
                    {[dir |-> output_dir, name |-> file.name,
                      text |-> file.text] :
                        file \in {g \in disk :
                                    /\ g.dir = download_dir
                                    /\ StartsWith(g.name, CompressedName)}}
               ELSE disk
    /\ calls' = Append(calls, [op |-> "download_from_github",
                               ret |-> output_dir, exc |-> "",
                               raised |-> ""])
    /\ UNCHANGED <<priceInput, entries, unitVars, loadVars, rowVars, runVars,
                   scanVars, file_exists, zip_chunks, use_temp_dir, temp_dir,
                   tempdirs, remote, ctx, requests, output_dir, download_dir,
                   chunk_count, chunk_index>>

NextFileManager ==
    \/ GetWorkDir
    \/ CleanupTempDir
    \/ Enter
    \/ Exit
    \/ Split
    \/ DownloadBegin
    \/ FetchSentinel
    \/ ParseSentinel
    \/ RequestChunk
    \/ DownloadEnd

SpecFileManager == InitFileManager /\ [][NextFileManager]_vars

\* ------------------------------------------------------------------------
\* Claims about the FileManager
\* ------------------------------------------------------------------------

\* The calls of _get_work_dir, by position in calls.
WorkDirCalls == {k \in DOMAIN calls : calls[k].op = "_get_work_dir"}

\* The calls that remove the temporary directory.
CleanupCalls == {k \in DOMAIN calls : calls[k].op \in {"cleanup_temp_dir",
                                                      "__exit__"}}

\* After a cleanup or the exit of a with statement, until the work directory
\* is asked for again, temp_dir is None and no temporary directory is left;
\* the exception that ended a with statement goes on.
C22_AfterCleanup ==
    /\ (calls # <<>> /\ Len(calls) \in CleanupCalls) =>
           /\ temp_dir = None
           /\ tempdirs = {}
           /\ \A file \in disk : file.dir \notin TempNames
    /\ \A k \in DOMAIN calls :
           calls[k].op = "__exit__" => calls[k].raised = calls[k].exc

\* Without a temporary directory the work directory is "." and temp_dir is
\* None in every state.
C22_NoTempDir ==
    ~use_temp_dir =>
        /\ temp_dir = None
        /\ tempdirs = {}
        /\ \A k \in WorkDirCalls : calls[k].ret = CurDir

\* C22 as stated: with use_temp_dir the first call of _get_work_dir creates a
\* temporary directory and every later call returns that same directory.
C22_Original ==
    /\ use_temp_dir =>
           \A j, k \in WorkDirCalls :
               /\ calls[k].ret \in TempNames
               /\ calls[j].ret = calls[k].ret
    /\ C22_AfterCleanup
    /\ C22_NoTempDir

\* C22, amended: with use_temp_dir _get_work_dir returns a temporary
\* directory that exists, the one of temp_dir, and two calls return the same
\* directory when no cleanup and no exit of a with statement came between
\* them; after cleanup_temp_dir or __exit__ (also with an exception, which
\* goes on) temp_dir is None and the directory is gone; without use_temp_dir
\* the work directory is "." and temp_dir is None in every state.
C22_TempDirLifecycle ==
    /\ use_temp_dir =>
           /\ \A k \in WorkDirCalls : calls[k].ret \in TempNames
           /\ \A j, k \in WorkDirCalls :
                  (j < k /\ \A m \in CleanupCalls : ~(j < m /\ m < k))
                      => calls[j].ret = calls[k].ret
           /\ (calls # <<>> /\ Len(calls) \in WorkDirCalls) =>
                  /\ temp_dir = calls[Len(calls)].ret
                  /\ temp_dir \in tempdirs
           /\ temp_dir # None => tempdirs = {temp_dir}
    /\ C22_AfterCleanup
    /\ C22_NoTempDir

\* Two calls returned one temporary directory, then a with statement was
\* left by an exception and the directory is gone.
C22_Witness ==
    /\ use_temp_dir
    /\ Len(calls) = 4
    /\ calls[1].op = "__enter__"
    /\ calls[2].op = "_get_work_dir"
    /\ calls[3].op = "_get_work_dir"
    /\ calls[2].ret = calls[3].ret
    /\ calls[4].op = "__exit__"
    /\ calls[4].raised = "RuntimeError"
    /\ temp_dir = None
    /\ tempdirs = {}

\* ------------------------------------------------------------------------
\* Claims about the order of the steps
\* ------------------------------------------------------------------------

\* The stage of the price block that follows each position.
NextStage ==
    [idle |-> "parsed", parsed |-> "reduced", reduced |-> "cutoff",
     cutoff |-> "unique", unique |-> "serialized"]

\* C23: the price list of a row goes through reduce_precision, then
\* filter_below_cutoff with the cutoff 0.01, then filter_duplicate_prices, in
\* that order and each on the list the stage before returned, and the price
\* string is built from the list the last stage returned.
C23_StageOrder ==
    /\ [](pc \in {"serialized", "described", "rohs", "category", "package",
                  "stripped", "done", "raised"} =>
            /\ price_entries_cutoff =
                   FilterBelowCutoff(ReducePrecision(PriceInit(priceInput)),
                                     CutoffPriceDollars)
            /\ price_entries_unique =
                   FilterDuplicatePrices(price_entries_cutoff)
            /\ price_str = PriceStr(price_entries_unique))
    /\ [][/\ pc \in DOMAIN NextStage => pc' = NextStage[pc]
          /\ pc' = "reduced" => price_entries' = ReducePrecision(entries)
          /\ pc' = "cutoff" =>
                 price_entries_cutoff' =
                     FilterBelowCutoff(price_entries, CutoffPriceDollars)
          /\ pc' = "unique" =>
                 price_entries_unique' =
                     FilterDuplicatePrices(price_entries_cutoff)
          /\ pc' = "serialized" =>
                 price_str' = PriceStr(price_entries_unique)]_vars

\* A row whose three tiers lose one entry to the cutoff and one to the merge
\* of equal prices.
C23_Witness ==
    /\ pc = "serialized"
    /\ Len(priceInput) = 3
    /\ Len(price_entries_cutoff) = 2
    /\ Len(price_entries_unique) = 1
    /\ price_str = PriceStr(price_entries_unique)

\* The phase of a pipeline run.
Phase ==
    IF run = "created" THEN "Created"
    ELSE IF Failed THEN "Failed"
    ELSE IF run = "done" THEN "Completed"
    ELSE "Running"

\* The identifiers of the components of a list of source rows.
Ids(table) == [k \in DOMAIN table |-> PartId(table[k])]

\* The identifiers of the part rows of a list.
RowIds(list) == [k \in DOMAIN list |-> list[k].LCSC_Part]

\* Every matched component is in one place: its row is in the parts table, or
\* among the rows of the batch being translated, or it waits in the batch, or
\* the cursor has not returned it yet.
ForwardPass ==
    run \notin {"created", "connected"} =>
        RowIds(parts)
            \o (IF run = "rows"
                THEN RowIds(rows) \o Ids(SubSeq(comps, Len(rows) + 1, Len(comps)))
                ELSE <<>>)
            \o Ids(res)
        = Ids(Matched)

\* C24: a run goes from Created to Running and from there to Completed or to
\* Failed, where it stays; it fetches and translates every batch once, in
\* one pass over the source.
C24_RunPhases ==
    /\ []ForwardPass
    /\ [][/\ Phase = "Created" => Phase' \in {"Created", "Running"}
          /\ Phase = "Running" => Phase' # "Created"
          /\ Phase \in {"Completed", "Failed"} => vars' = vars
          /\ cidx' # cidx =>
                 \/ run = "rows" /\ comps' = comps /\ cidx' = cidx + 1
                 \/ run = "fetch" /\ cidx' = 0
          /\ res' # res =>
                 /\ run \in {"connected", "fetch"}
                 /\ run = "fetch" => res = comps' \o res']_vars

\* A completed run of two batches.
C24_Witness ==
    /\ Phase = "Completed"
    /\ reads = <<2, 1, 0>>
    /\ Len(parts) = 3

\* C25: the lookup tables are read once, before the first batch is fetched;
\* the category index is populated after the last batch has been inserted,
\* optimize runs after that and the metadata is written after optimize; none
\* of the three runs when a batch has failed.
C25_StepOrder ==
    /\ [](reads # <<>> => mans = MansTable /\ cats = CatsTable)
    /\ [](Failed => categories = <<>> /\ ~optimized /\ meta = <<>>)
    /\ [](run \in {"connected", "fetch", "rows", "loaded"} =>
             categories = <<>> /\ ~optimized /\ meta = <<>>)
    /\ [][/\ (mans' # mans \/ cats' # cats) =>
                 run = "connected" /\ reads = <<>> /\ parts = <<>>
          /\ run' = "connected" => run \in {"created", "connected"}
          /\ (run' = "categorized" /\ run # "categorized") =>
                 /\ run = "loaded"
                 /\ res = <<>>
                 /\ reads[Len(reads)] = 0
                 /\ RowIds(parts) = Ids(Matched)
                 /\ categories' = SelectCategories(parts)
          /\ (run # "created" /\ optimized' # optimized) =>
                 run = "categorized"
          /\ (run # "created" /\ meta' # meta) =>
                 run = "optimized" /\ optimized]_vars

\* A completed run: the lookup tables were read, two batches were inserted,
\* then the categories, the optimize command and the metadata followed.
C25_Witness ==
    /\ run = "done"
    /\ mans = MansTable
    /\ Len(reads) = 3
    /\ Len(categories) >= 2
    /\ optimized
    /\ Len(meta) = 1

\* The matched components whose rows have been translated so far.
Translated ==
    SubSeq(Matched, 1,
           Len(parts) + (IF run = "rows" THEN Len(rows) ELSE 0))

\* The length of the normalized price list of a component.
EntriesKept(row) == Len(NormalizedPrices(row))

\* C26: after every translated row and when load_tables returns, the total
\* is the sum of the lengths of the parsed price lists of the translated
\* rows, the removed count is the total less the sum of the lengths of their
\* normalized lists, and the duplicate count is at most the removed count,
\* which is at most the total; the statistics line shows these counts.
C26_Statistics ==
    /\ ((run = "rows" /\ pc = "done") \/ run = "fetch" \/ Loaded) =>
           /\ price_entries_total = SumOver(EntriesSeen, Translated)
           /\ price_entries_deleted_total =
                  price_entries_total - SumOver(EntriesKept, Translated)
    /\ run \notin {"created", "connected"} =>
           /\ 0 <= price_entries_duplicates_deleted_total
           /\ price_entries_duplicates_deleted_total
                  <= price_entries_deleted_total
           /\ price_entries_deleted_total <= price_entries_total
    /\ Loaded =>
           /\ Len(stats) = 1
           /\ stats[1].total = price_entries_total
           /\ stats[1].deleted = price_entries_deleted_total
           /\ stats[1].duplicates = price_entries_duplicates_deleted_total

\* After a translated row, with one entry lost to the cutoff and one merged
\* as a duplicate so far.
C26_Witness ==
    /\ run = "rows"
    /\ pc = "done"
    /\ Len(Translated) = 2
    /\ price_entries_duplicates_deleted_total = 1
    /\ price_entries_deleted_total = 2

\* ------------------------------------------------------------------------
\* Claims about split and download_from_github
\* ------------------------------------------------------------------------

\* The names of the chunk files of a directory.
ChunksIn(dir) ==
    {file.name : file \in {g \in disk : /\ g.dir = dir
                                        /\ StartsWith(g.name, CompressedName)}}

\* The texts of the sentinel files of a directory (none or one).
SentinelIn(dir) ==
    {file.text : file \in {g \in disk : /\ g.dir = dir
                                        /\ g.name = SentinelFilename}}

\* The names of the chunks requested so far.
ChunksRequested ==
    {requests[k].name : k \in {m \in DOMAIN requests :
                                   requests[m].name # SentinelFilename}}

\* C27: when split has returned N, the sentinel of the work directory holds
\* N and the directory has exactly N chunk files; and a download from a url
\* that serves the output of a split into N chunks requests only chunks that
\* split wrote and, when it returns, has requested all of them.
C27_SplitDownloadNames ==
    /\ \A k \in DOMAIN calls :
           (/\ k = Len(calls)
            /\ calls[k].op = "split"
            /\ calls[k].raised = ""
            /\ requests = <<>>) =>
               LET work_dir == calls[k - 1].ret
               IN  /\ SentinelIn(work_dir) = {IntToStr(calls[k].ret)}
                   /\ Cardinality(ChunksIn(work_dir)) = calls[k].ret
                   /\ ChunksIn(work_dir) = Published(calls[k].ret).chunks
    /\ \A n \in 1..MaxChunks :
           remote = Published(n) =>
               /\ ChunksRequested \subseteq remote.chunks
               /\ dl = "returned" => ChunksRequested = remote.chunks

\* ------------------------------------------------------------------------
\* Claims about the scan of filter_duplicate_prices
\* ------------------------------------------------------------------------

\* C28: filter_duplicate_prices returns for every price list; a turn of its
\* loop that does not end the loop advances second by one, the scan reads no
\* index past the end of the list, and when the loop has ended the one
\* pending entry is appended.
C28_ScanTerminates ==
    /\ <>(pc = "return")
    /\ [](pc # "IndexError")
    /\ [](pc = "loop" =>
             /\ 0 <= first
             /\ first < second
             /\ second <= Len(entries)
             /\ pending # <<>> => second < Len(entries) + 1)
    /\ [](pc = "return" => ret = FilterDuplicatePrices(entries))
    /\ [][/\ (pc = "loop" /\ pc' = "loop") => second' = second + 1
          /\ pc = "append" =>
                 /\ Len(pending) = 1
                 /\ price_entries_unique'
                        = Append(price_entries_unique, pending[1])]_vars

\* A scan of three entries that merged two and appended the pending one.
C28_Witness ==
    /\ pc = "return"
    /\ Len(entries) = 3
    /\ second = 3
    /\ Len(price_entries_unique) = 2
    /\ price_entries_unique[2].min_quantity = entries[2].min_quantity
    /\ price_entries_unique[2].max_quantity = entries[3].max_quantity

\* ------------------------------------------------------------------------
\* Claims about the normalized list as a whole
\* ------------------------------------------------------------------------

\* C29: the normalized list of a parsed price list that is not empty is not
\* empty and not longer than the parsed list, its first entry has the
\* min_quantity and the rounded price of the first parsed entry, and the
\* price string is not empty.
C29_FirstEntrySurvives ==
    pc = "serialized" =>
        LET parsed == PriceInit(priceInput)
        IN  Len(parsed) >= 1 =>
                /\ Len(price_entries_unique) >= 1
                /\ Len(price_entries_unique) <= Len(parsed)
                /\ price_entries_unique[1].min_quantity
                       = parsed[1].min_quantity
                /\ price_entries_unique[1].price_dollars
                       = Round3(parsed[1].price_dollars)
                /\ price_entries_unique[1].price_dollars_str
                       = Format3f(parsed[1].price_dollars)
                /\ price_str # <<>>

\* A list whose first price is below the cutoff and is kept, while a later
\* entry is dropped.
C29_Witness ==
    /\ pc = "serialized"
    /\ Len(priceInput) = 3
    /\ priceInput[1].price = <<"0", ".", "0", "0", "4">>
    /\ Len(price_entries_unique) = 2
    /\ price_entries_unique[1].price_dollars_str = <<"0", ".", "0", "0", "4">>
    /\ price_entries_unique[1].min_quantity = 1
    /\ price_str # <<>>

\* The sentinel the url serves is the text of an integer.
SentinelParses == ParseInt(Strip(remote.sentinel)).ok

\* The download has ended, by a return or by an exception.
DownloadEnded == dl \in {"returned", "FileNotFoundError", "ValueError", "OSError"}

\* C30: the first request is for the sentinel and a chunk is requested only
\* when the sentinel was fetched and is an integer; a failed sentinel request
\* ends the download with FileNotFoundError and a sentinel that is no integer
\* with ValueError, with no chunk requested; the chunks are requested in the
\* order 1, 2, .. and the first failed chunk request ends the download with
\* OSError, with no request after it.
C30_DownloadOrder ==
    /\ [](requests # <<>> => requests[1].name = SentinelFilename)
    /\ [](\A k \in DOMAIN requests :
             k >= 2 =>
                 /\ requests[1].ok
                 /\ SentinelParses
                 /\ k - 1 <= ParseInt(Strip(remote.sentinel)).value
                 /\ requests[k].name = ChunkFilename(k - 1)
                 /\ requests[k - 1].ok)
    /\ [](dl = "FileNotFoundError" <=>
             (requests # <<>> /\ ~requests[1].ok))
    /\ [](dl = "ValueError" <=>
             (/\ dl \notin {"idle", "sentinel", "parse"}
              /\ requests[1].ok
              /\ ~SentinelParses))
    /\ [](dl = "OSError" <=>
             (Len(requests) >= 2 /\ ~requests[Len(requests)].ok))
    /\ [](dl \in {"FileNotFoundError", "ValueError"} => Len(requests) = 1)
    /\ [][DownloadEnded => requests' = requests /\ dl' = dl]_vars

\* The request for the first of two chunks failed: the download ended with
\* OSError and the second chunk was not requested.
C30_Witness ==
    /\ dl = "OSError"
    /\ chunk_count = 2
    /\ Len(requests) = 2
    /\ requests[1].ok
    /\ ~requests[2].ok

====
